---- MODULE Spec2Model ----
(***************************************************************************)
(* A model of the Minecraft protocol server of this repository             *)
(* (protocol 766): the wire codec of crates/protocol-network/src/buffer,   *)
(* the packet table and handlers of v1_21.rs, the registry burst of        *)
(* packet/registry.rs, the read loop of tcp/client/connection.rs and the   *)
(* accept loop of tcp/server/connection.rs.                                *)
(*                                                                         *)
(* Three specifications.  Spec follows one connection byte by byte.        *)
(* ServerSpec follows the acceptor and the connections it is given, each   *)
(* connection at the grain of the turns of its read loop.  CodecSpec       *)
(* writes a value to a ByteBuf and reads it back.                          *)
(*                                                                         *)
(* The others follow the rest of the workspace.  ValueSpec builds and     *)
(* writes the composite values of protocol-network (Identifier, Property,  *)
(* LoginPlayPacket, Vec<T>).  SendSpec follows one send_packet down to     *)
(* the socket write.  FrameSpec calls crates/protocol-buf: the framing     *)
(* (CompressionData::to_buffer, PacketBuffer::new), the reads and writes   *)
(* of a NormalBuffer, encode_varint, and the read loop of Client::start    *)
(* of protocol-core.  CoreSpec follows the accept loop of                  *)
(* crates/protocol-core/src/server.rs, the one main.rs runs; CoreFairSpec  *)
(* is CoreSpec with the accept loop scheduled fairly.                      *)
(*                                                                         *)
(* Numbers.  TLC's integers are 32 bits wide, so an i32 is a TLA+ integer  *)
(* in -2^31 .. 2^31-1 and every 64-bit quantity (the u64 accumulator of    *)
(* the VarInt decoder, an i64 field) is the set of its one bits, a subset  *)
(* of 0..63.  A byte is a number in 0..255 and a byte string a sequence.   *)
(***************************************************************************)
EXTENDS Integers, Sequences, FiniteSets, TLC

\* The number of socket reads of one connection the model follows.
MaxReads == 4

\* The clients that connect to the listener, and how many writes of one
\* client the server may have left unread.
MaxClients == 2

MaxPending == 2

\* The connections made to the listener of protocol-core.
MaxCoreClients == 3

\* encode_varint is followed until it has pushed this many bytes
MaxVarintBytes == 7

VARIABLES
    state,      \* MinecraftClient.state
    connected,  \* MinecraftClient.connected
    pc,         \* where the task of MinecraftClient::connect is
    sent,       \* the buffers handed to listener.write since the last socket read,
                \* one per send_packet call
    written,    \* the packets send_packet has handed to listener.write on this
                \* connection so far, by name, in order
    log,        \* the last line handle_packet printed
    rx,         \* buf[..read]: the bytes the last socket read returned
    build,      \* the build profile: it decides what an over-long shift does
    nreads,     \* socket reads answered so far
    srv_pc,     \* where the task of MinecraftServerConnection::connect is
    serving,    \* the client whose socket new_client was given, 0 when none
    conn,       \* each client's connection, as the client and the kernel see it
    backlog,    \* connections the listener holds and accept() has not returned
    inbox,      \* what each client wrote and the server has not read yet
    turns,      \* the turns of the read loop completed for each client
    cin,        \* the value given to the codec
    cpc,        \* where the codec round is: start, written, read
    cbuf,       \* the ByteBuf the value was written to
    cout,       \* what was read back: [panic, val, buf]
    compression_threshold,  \* ServerConnection.compression_threshold
    is_running,             \* ServerConnection.is_running
    core_pc,                \* where accept_connections is: check, accept, returned
    core_clients,           \* the Client of every task spawned, in order
    core_backlog            \* connections made that accept() has not returned

connVars == <<state, connected, pc, sent, written, log, rx, nreads>>

serverVars == <<srv_pc, serving, conn, backlog, inbox, turns>>

codecVars == <<cin, cpc, cbuf, cout>>

coreVars == <<compression_threshold, is_running, core_pc, core_clients, core_backlog>>

vars == <<connVars, build, serverVars, codecVars, coreVars>>

----------------------------------------------------------------------------
(* Bytes and buffers *)

Byte == 0..255

RECURSIVE Concat(_)
Concat(seqs) ==
    IF seqs = <<>> THEN <<>> ELSE Head(seqs) \o Concat(Tail(seqs))

Zeros(n) == [i \in 1..n |-> 0]

\* ByteBuf: a Cursor<Vec<u8>>, the vector and the cursor position (0-based).
NewBuf(bytes) == [vec |-> bytes, pos |-> 0]

NewEmpty == [vec |-> <<>>, pos |-> 0]

\* Cursor<Vec<u8>>::write: pad with zeros up to the cursor when it is past the
\* end, overwrite from the cursor, extend the vector, advance the cursor.
BufWrite(buf, bytes) ==
    LET padded == IF buf.pos > Len(buf.vec)
                  THEN buf.vec \o Zeros(buf.pos - Len(buf.vec))
                  ELSE buf.vec
        end    == buf.pos + Len(bytes)
        newlen == IF end > Len(padded) THEN end ELSE Len(padded)
    IN  [vec |-> [i \in 1..newlen |->
                    IF i > buf.pos /\ i <= end THEN bytes[i - buf.pos] ELSE padded[i]],
         pos |-> end]

\* Cursor<Vec<u8>>::read into a zeroed array of n bytes: copies what is left
\* (possibly nothing), never fails, and leaves the other bytes zero.
BufRead(buf, n) ==
    LET left == IF Len(buf.vec) > buf.pos THEN Len(buf.vec) - buf.pos ELSE 0
        k    == IF left < n THEN left ELSE n
    IN  [bytes |-> [i \in 1..n |-> IF i <= k THEN buf.vec[buf.pos + i] ELSE 0],
         buf   |-> [vec |-> buf.vec, pos |-> buf.pos + k]]

\* ByteBuf::get_rest: read_to_end from the cursor.
GetRest(buf) ==
    IF buf.pos >= Len(buf.vec) THEN <<>> ELSE SubSeq(buf.vec, buf.pos + 1, Len(buf.vec))

\* Vec::rotate_right(k)
RotateRight(v, k) ==
    LET n == Len(v)
    IN  IF n = 0 THEN v ELSE [i \in 1..n |-> v[((i - 1 - k) % n) + 1]]

----------------------------------------------------------------------------
(* VarInt (register_varnum!(VarInt, i32, u32, 5)) *)

\* value >>= 7 on the u32 image of the i32 v
Shr7(v) == IF v >= 0 THEN v \div 128 ELSE (v \div 128) + 33554432

\* value >= 0x80 on the u32 image of the i32 v
AtLeast0x80(v) == v < 0 \/ v >= 128

RECURSIVE VarIntToNetwork(_)
VarIntToNetwork(v) ==
    IF AtLeast0x80(v)
    THEN <<(v % 128) + 128>> \o VarIntToNetwork(Shr7(v))
    ELSE <<v>>

\* A faulty variant of GetSizeInBytes: the working type is the signed i32
RECURSIVE GetSizeInBytesSigned(_)
GetSizeInBytesSigned(v) ==
    IF v >= 128 THEN 1 + GetSizeInBytesSigned(v \div 128) ELSE 1

RECURSIVE GetSizeInBytes(_)
GetSizeInBytes(v) ==
    IF AtLeast0x80(v) THEN 1 + GetSizeInBytes(Shr7(v)) ELSE 1

\* the one bits of a 7-bit group
BitsOf(c) == {i \in 0..7 : (c \div (2^i)) % 2 = 1}

\* (x as u64) << s for s < 64: bits shifted out of the 64 are lost
Shl64(bits, s) == {b + s : b \in bits} \cap (0..63)

\* The shift amount the build uses: a debug build panics on a shift of 64 or
\* more ("attempt to shift left with overflow"), a release build masks it.
ShiftOverflows(shift, bld) == shift >= 64 /\ bld = "debug"

\* result as i32: the low 32 bits, two's complement
AsI32(bits) ==
    LET low[i \in 0..30] ==
            (IF i \in bits THEN 2^i ELSE 0) + (IF i = 0 THEN 0 ELSE low[i - 1])
    IN  IF 31 \in bits THEN (low[30] - 1073741824) - 1073741824 ELSE low[30]

\* result |= ((byte & 0x7F) as u64) << shift
VarNumOr(result, byte, shift) == result \cup Shl64(BitsOf(byte % 128), shift % 64)

RECURSIVE VarNumLoop(_, _, _, _)
\* One turn of the loop of from_network, r being what buf.read gave: a panic,
\* the value when the byte has no continuation bit, or the next turn.
VarNumTurn(r, result, shift, bld) ==
    IF ShiftOverflows(shift, bld)
    THEN [panic |-> TRUE, val |-> 0, buf |-> r.buf]
    ELSE IF r.bytes[1] < 128
         THEN [panic |-> FALSE, val |-> AsI32(VarNumOr(result, r.bytes[1], shift)),
               buf |-> r.buf]
         ELSE VarNumLoop(r.buf, VarNumOr(result, r.bytes[1], shift), shift + 7, bld)

VarNumLoop(buf, result, shift, bld) == VarNumTurn(BufRead(buf, 1), result, shift, bld)

\* VarInt::from_network: [panic, val, buf]
ReadVarInt(buf, bld) == VarNumLoop(buf, {}, 0, bld)

----------------------------------------------------------------------------
(* Fixed-width values and strings (buffer/types.rs) *)

\* u16::to_be_bytes
U16Be(v) == <<(v \div 256) % 256, v % 256>>

\* i32::to_be_bytes; \div rounds down, so it is the arithmetic shift
I32Be(v) ==
    <<(v \div 16777216) % 256, (v \div 65536) % 256, (v \div 256) % 256, v % 256>>

\* the byte of a 64-bit value that holds bits 8k .. 8k+7
ByteAt(bits, k) ==
    LET f[i \in 0..7] ==
            (IF (8 * k + i) \in bits THEN 2^i ELSE 0) + (IF i = 0 THEN 0 ELSE f[i - 1])
    IN  f[7]

\* i64::to_be_bytes
I64Be(bits) == [j \in 1..8 |-> ByteAt(bits, 8 - j)]

\* i64::from_be_bytes
I64FromBe(bytes) ==
    UNION {{8 * (8 - j) + i : i \in BitsOf(bytes[j])} : j \in 1..8}

\* u16::from_be_bytes
U16FromBe(bytes) == bytes[1] * 256 + bytes[2]

\* The width of the UTF-8 sequence that starts with the non-ASCII byte b[i],
\* 0 when no well-formed sequence starts there
Utf8Width(b, i) ==
    LET n       == Len(b)
        cont(k) == k <= n /\ b[k] >= 128 /\ b[k] <= 191
        two     == cont(i + 1)
        three   == two /\ cont(i + 2)
        four    == three /\ cont(i + 3)
    IN  CASE b[i] >= 194 /\ b[i] <= 223 -> IF two THEN 2 ELSE 0
          [] b[i] = 224 -> IF three /\ b[i + 1] >= 160 THEN 3 ELSE 0
          [] b[i] = 237 -> IF three /\ b[i + 1] <= 159 THEN 3 ELSE 0
          [] b[i] >= 225 /\ b[i] <= 239 /\ b[i] # 237 -> IF three THEN 3 ELSE 0
          [] b[i] = 240 -> IF four /\ b[i + 1] >= 144 THEN 4 ELSE 0
          [] b[i] = 244 -> IF four /\ b[i + 1] <= 143 THEN 4 ELSE 0
          [] b[i] >= 241 /\ b[i] <= 243 -> IF four THEN 4 ELSE 0
          [] OTHER -> 0

\* Whether the bytes of b from index i on are well-formed UTF-8: ASCII bytes
\* are skipped, every other byte must start a well-formed sequence
RECURSIVE Utf8From(_, _)
Utf8From(b, i) ==
    LET high == {k \in i..Len(b) : b[k] >= 128}
    IN  IF high = {} THEN TRUE
        ELSE LET j == CHOOSE k \in high : \A m \in high : k <= m
                 w == Utf8Width(b, j)
             IN  w > 0 /\ Utf8From(b, j + w)

\* String::from_utf8(bytes).is_ok()
IsUtf8(b) == Utf8From(b, 1)

\* String::from_network: the length as usize (a negative length overflows the
\* allocation), that many bytes read into a zeroed vector, from_utf8().unwrap().
StringFromBytes(r) == [panic |-> ~IsUtf8(r.bytes), val |-> r.bytes, buf |-> r.buf]

StringOfLength(l) ==
    IF l.panic \/ l.val < 0
    THEN [panic |-> TRUE, val |-> <<>>, buf |-> l.buf]
    ELSE StringFromBytes(BufRead(l.buf, l.val))

ReadString(buf, bld) == StringOfLength(ReadVarInt(buf, bld))

\* String::to_network
WriteString(buf, s) == BufWrite(BufWrite(buf, VarIntToNetwork(Len(s))), s)

\* bool::to_network
WriteBool(buf, b) == BufWrite(buf, <<IF b THEN 1 ELSE 0>>)

RECURSIVE WriteEachString(_, _)
WriteEachString(buf, ss) ==
    IF ss = <<>> THEN buf ELSE WriteEachString(WriteString(buf, Head(ss)), Tail(ss))

\* Vec<String>::to_network: the VarInt count, then each element
WriteStrings(buf, ss) ==
    WriteEachString(BufWrite(buf, VarIntToNetwork(Len(ss))), ss)

----------------------------------------------------------------------------
(* String constants of the handlers, as UTF-8 bytes *)

\* "1.20.6"
StrStatusName ==
    <<49, 46, 50, 48, 46, 54>>

\* "Wowie a Rust Status Request!"
StrStatusDescription ==
    <<87, 111, 119, 105, 101, 32, 97, 32, 82, 117, 115, 116, 32, 83, 116, 97, 116, 117,
      115, 32, 82, 101, 113, 117, 101, 115, 116, 33>>

\* "players"
StrPlayers ==
    <<112, 108, 97, 121, 101, 114, 115>>

\* "version"
StrVersion ==
    <<118, 101, 114, 115, 105, 111, 110>>

\* "description"
StrDescription ==
    <<100, 101, 115, 99, 114, 105, 112, 116, 105, 111, 110>>

\* "max"
StrMax ==
    <<109, 97, 120>>

\* "online"
StrOnline ==
    <<111, 110, 108, 105, 110, 101>>

\* "name"
StrName ==
    <<110, 97, 109, 101>>

\* "protocol"
StrProtocol ==
    <<112, 114, 111, 116, 111, 99, 111, 108>>

\* "minecraft:overworld"
StrOverworld ==
    <<109, 105, 110, 101, 99, 114, 97, 102, 116, 58, 111, 118, 101, 114, 119, 111, 114,
      108, 100>>

\* "minecraft:worldgen/biome"
StrRegBiome ==
    <<109, 105, 110, 101, 99, 114, 97, 102, 116, 58, 119, 111, 114, 108, 100, 103, 101,
      110, 47, 98, 105, 111, 109, 101>>

\* "minecraft:chat_type"
StrRegChatType ==
    <<109, 105, 110, 101, 99, 114, 97, 102, 116, 58, 99, 104, 97, 116, 95, 116, 121, 112,
      101>>

\* "minecraft:trim_pattern"
StrRegTrimPattern ==
    <<109, 105, 110, 101, 99, 114, 97, 102, 116, 58, 116, 114, 105, 109, 95, 112, 97, 116,
      116, 101, 114, 110>>

\* "minecraft:trim_material"
StrRegTrimMaterial ==
    <<109, 105, 110, 101, 99, 114, 97, 102, 116, 58, 116, 114, 105, 109, 95, 109, 97, 116,
      101, 114, 105, 97, 108>>

\* "minecraft:wolf_variant"
StrRegWolfVariant ==
    <<109, 105, 110, 101, 99, 114, 97, 102, 116, 58, 119, 111, 108, 102, 95, 118, 97, 114,
      105, 97, 110, 116>>

\* "minecraft:dimension_type"
StrRegDimensionType ==
    <<109, 105, 110, 101, 99, 114, 97, 102, 116, 58, 100, 105, 109, 101, 110, 115, 105,
      111, 110, 95, 116, 121, 112, 101>>

\* "minecraft:damage_type"
StrRegDamageType ==
    <<109, 105, 110, 101, 99, 114, 97, 102, 116, 58, 100, 97, 109, 97, 103, 101, 95, 116,
      121, 112, 101>>

\* "minecraft:banner_pattern"
StrRegBannerPattern ==
    <<109, 105, 110, 101, 99, 114, 97, 102, 116, 58, 98, 97, 110, 110, 101, 114, 95, 112,
      97, 116, 116, 101, 114, 110>>

\* "minecraft:badlands"
StrBadlands ==
    <<109, 105, 110, 101, 99, 114, 97, 102, 116, 58, 98, 97, 100, 108, 97, 110, 100, 115>>

\* "minecraft:chat"
StrChat ==
    <<109, 105, 110, 101, 99, 114, 97, 102, 116, 58, 99, 104, 97, 116>>

\* "minecraft:coast"
StrCoast ==
    <<109, 105, 110, 101, 99, 114, 97, 102, 116, 58, 99, 111, 97, 115, 116>>

\* "minecraft:amethyst"
StrAmethyst ==
    <<109, 105, 110, 101, 99, 114, 97, 102, 116, 58, 97, 109, 101, 116, 104, 121, 115, 116>>

\* "minecraft:ashen"
StrAshen ==
    <<109, 105, 110, 101, 99, 114, 97, 102, 116, 58, 97, 115, 104, 101, 110>>

\* "minecraft:in_fire"
StrInFire ==
    <<109, 105, 110, 101, 99, 114, 97, 102, 116, 58, 105, 110, 95, 102, 105, 114, 101>>

\* "minecraft:base"
StrBase ==
    <<109, 105, 110, 101, 99, 114, 97, 102, 116, 58, 98, 97, 115, 101>>

\* "127.0.0.1"
StrLocalhost ==
    <<49, 50, 55, 46, 48, 46, 48, 46, 49>>

\* "alice"
StrAlice ==
    <<97, 108, 105, 99, 101>>

----------------------------------------------------------------------------
(* NBT documents (protocol-registry) and their network form *)

\* Biome::to_nbt of the badlands biome
BiomeNbt ==
    \* has_precipitation
    << [name |-> <<104, 97, 115, 95, 112, 114, 101, 99, 105, 112, 105, 116, 97, 116, 105, 111, 110>>,
        tag |-> [t |-> "Byte", v |-> 0]],
    \* temperature: 2.0f32
       [name |-> <<116, 101, 109, 112, 101, 114, 97, 116, 117, 114, 101>>,
        tag |-> [t |-> "Float", v |-> <<64, 0, 0, 0>>]],
    \* downfall: 0.0f32
       [name |-> <<100, 111, 119, 110, 102, 97, 108, 108>>,
        tag |-> [t |-> "Float", v |-> <<0, 0, 0, 0>>]],
    \* effects
       [name |-> <<101, 102, 102, 101, 99, 116, 115>>,
        tag |-> [t |-> "Compound", v |->
            \* fog_color
            << [name |-> <<102, 111, 103, 95, 99, 111, 108, 111, 114>>,
                tag |-> [t |-> "Int", v |-> 12638463]],
            \* water_color
               [name |-> <<119, 97, 116, 101, 114, 95, 99, 111, 108, 111, 114>>,
                tag |-> [t |-> "Int", v |-> 4159204]],
            \* water_fog_color
               [name |-> <<119, 97, 116, 101, 114, 95, 102, 111, 103, 95, 99, 111, 108, 111, 114>>,
                tag |-> [t |-> "Int", v |-> 329011]],
            \* sky_color
               [name |-> <<115, 107, 121, 95, 99, 111, 108, 111, 114>>,
                tag |-> [t |-> "Int", v |-> 7254527]] >>]] >>

\* ChatType::to_nbt of minecraft:chat
ChatTypeNbt ==
    \* chat
    << [name |-> <<99, 104, 97, 116>>,
        tag |-> [t |-> "Compound", v |->
            \* name: "chat"
            << [name |-> <<110, 97, 109, 101>>,
                tag |-> [t |-> "String", v |-> <<99, 104, 97, 116>>]],
            \* translation_key: "chat.type.text"
               [name |-> <<116, 114, 97, 110, 115, 108, 97, 116, 105, 111, 110, 95, 107, 101, 121>>,
                tag |-> [t |-> "String", v |-> <<99, 104, 97, 116, 46, 116, 121, 112, 101, 46, 116, 101, 120, 116>>]],
            \* parameters: ["sender"]
               [name |-> <<112, 97, 114, 97, 109, 101, 116, 101, 114, 115>>,
                tag |-> [t |-> "List", v |-> <<<<115, 101, 110, 100, 101, 114>>>>]] >>]],
    \* narration
       [name |-> <<110, 97, 114, 114, 97, 116, 105, 111, 110>>,
        tag |-> [t |-> "Compound", v |->
            \* name: "narration"
            << [name |-> <<110, 97, 109, 101>>,
                tag |-> [t |-> "String", v |-> <<110, 97, 114, 114, 97, 116, 105, 111, 110>>]],
            \* translation_key: "chat.type.text.narrate"
               [name |-> <<116, 114, 97, 110, 115, 108, 97, 116, 105, 111, 110, 95, 107, 101, 121>>,
                tag |-> [t |-> "String", v |-> <<99, 104, 97, 116, 46, 116, 121, 112, 101, 46, 116, 101, 120, 116, 46, 110, 97, 114, 114, 97, 116, 101>>]],
            \* parameters: ["sender"]
               [name |-> <<112, 97, 114, 97, 109, 101, 116, 101, 114, 115>>,
                tag |-> [t |-> "List", v |-> <<<<115, 101, 110, 100, 101, 114>>>>]] >>]] >>

\* ArmorTrimPattern::to_nbt of minecraft:coast
TrimPatternNbt ==
    \* asset_id: "minecraft:coast"
    << [name |-> <<97, 115, 115, 101, 116, 95, 105, 100>>,
        tag |-> [t |-> "String", v |-> <<109, 105, 110, 101, 99, 114, 97, 102, 116, 58, 99, 111, 97, 115, 116>>]],
    \* template_item: "minecraft:coast_armor_trim_smithing_template"
       [name |-> <<116, 101, 109, 112, 108, 97, 116, 101, 95, 105, 116, 101, 109>>,
        tag |-> [t |-> "String", v |-> <<109, 105, 110, 101, 99, 114, 97, 102, 116, 58, 99, 111, 97, 115, 116, 95, 97, 114, 109, 111, 114, 95, 116, 114, 105, 109, 95, 115, 109, 105, 116, 104, 105, 110, 103, 95, 116, 101, 109, 112, 108, 97, 116, 101>>]],
    \* description: "trim_pattern.minecraft.coast"
       [name |-> <<100, 101, 115, 99, 114, 105, 112, 116, 105, 111, 110>>,
        tag |-> [t |-> "String", v |-> <<116, 114, 105, 109, 95, 112, 97, 116, 116, 101, 114, 110, 46, 109, 105, 110, 101, 99, 114, 97, 102, 116, 46, 99, 111, 97, 115, 116>>]],
    \* decal
       [name |-> <<100, 101, 99, 97, 108>>,
        tag |-> [t |-> "Byte", v |-> 0]] >>

\* ArmorTrimMaterial::to_nbt of minecraft:amethyst
TrimMaterialNbt ==
    \* asset_name: "amethyst"
    << [name |-> <<97, 115, 115, 101, 116, 95, 110, 97, 109, 101>>,
        tag |-> [t |-> "String", v |-> <<97, 109, 101, 116, 104, 121, 115, 116>>]],
    \* ingredient: "minecraft:amethyst_shard"
       [name |-> <<105, 110, 103, 114, 101, 100, 105, 101, 110, 116>>,
        tag |-> [t |-> "String", v |-> <<109, 105, 110, 101, 99, 114, 97, 102, 116, 58, 97, 109, 101, 116, 104, 121, 115, 116, 95, 115, 104, 97, 114, 100>>]],
    \* item_model_index: 1.0f32
       [name |-> <<105, 116, 101, 109, 95, 109, 111, 100, 101, 108, 95, 105, 110, 100, 101, 120>>,
        tag |-> [t |-> "Float", v |-> <<63, 128, 0, 0>>]],
    \* description: "trim_material.minecraft.amethyst"
       [name |-> <<100, 101, 115, 99, 114, 105, 112, 116, 105, 111, 110>>,
        tag |-> [t |-> "String", v |-> <<116, 114, 105, 109, 95, 109, 97, 116, 101, 114, 105, 97, 108, 46, 109, 105, 110, 101, 99, 114, 97, 102, 116, 46, 97, 109, 101, 116, 104, 121, 115, 116>>]] >>

\* WolfVariant::to_nbt of minecraft:ashen
WolfVariantNbt ==
    \* wild_texture: "minecraft:entity/wolf/wolf_ashen"
    << [name |-> <<119, 105, 108, 100, 95, 116, 101, 120, 116, 117, 114, 101>>,
        tag |-> [t |-> "String", v |-> <<109, 105, 110, 101, 99, 114, 97, 102, 116, 58, 101, 110, 116, 105, 116, 121, 47, 119, 111, 108, 102, 47, 119, 111, 108, 102, 95, 97, 115, 104, 101, 110>>]],
    \* tame_texture: "minecraft:entity/wolf/wolf_ashen_tame"
       [name |-> <<116, 97, 109, 101, 95, 116, 101, 120, 116, 117, 114, 101>>,
        tag |-> [t |-> "String", v |-> <<109, 105, 110, 101, 99, 114, 97, 102, 116, 58, 101, 110, 116, 105, 116, 121, 47, 119, 111, 108, 102, 47, 119, 111, 108, 102, 95, 97, 115, 104, 101, 110, 95, 116, 97, 109, 101>>]],
    \* angry_texture: "minecraft:entity/wolf/wolf_ashen_angry"
       [name |-> <<97, 110, 103, 114, 121, 95, 116, 101, 120, 116, 117, 114, 101>>,
        tag |-> [t |-> "String", v |-> <<109, 105, 110, 101, 99, 114, 97, 102, 116, 58, 101, 110, 116, 105, 116, 121, 47, 119, 111, 108, 102, 47, 119, 111, 108, 102, 95, 97, 115, 104, 101, 110, 95, 97, 110, 103, 114, 121>>]],
    \* biomes: "minecraft:badlands"
       [name |-> <<98, 105, 111, 109, 101, 115>>,
        tag |-> [t |-> "String", v |-> <<109, 105, 110, 101, 99, 114, 97, 102, 116, 58, 98, 97, 100, 108, 97, 110, 100, 115>>]] >>

\* DimensionType::to_nbt of minecraft:overworld
DimensionTypeNbt ==
    \* has_skylight
    << [name |-> <<104, 97, 115, 95, 115, 107, 121, 108, 105, 103, 104, 116>>,
        tag |-> [t |-> "Byte", v |-> 1]],
    \* has_ceiling
       [name |-> <<104, 97, 115, 95, 99, 101, 105, 108, 105, 110, 103>>,
        tag |-> [t |-> "Byte", v |-> 0]],
    \* ultrawarm
       [name |-> <<117, 108, 116, 114, 97, 119, 97, 114, 109>>,
        tag |-> [t |-> "Byte", v |-> 0]],
    \* natural
       [name |-> <<110, 97, 116, 117, 114, 97, 108>>,
        tag |-> [t |-> "Byte", v |-> 1]],
    \* coordinate_scale: 1.0f64
       [name |-> <<99, 111, 111, 114, 100, 105, 110, 97, 116, 101, 95, 115, 99, 97, 108, 101>>,
        tag |-> [t |-> "Double", v |-> <<63, 240, 0, 0, 0, 0, 0, 0>>]],
    \* bed_works
       [name |-> <<98, 101, 100, 95, 119, 111, 114, 107, 115>>,
        tag |-> [t |-> "Byte", v |-> 1]],
    \* respawn_anchor_works
       [name |-> <<114, 101, 115, 112, 97, 119, 110, 95, 97, 110, 99, 104, 111, 114, 95, 119, 111, 114, 107, 115>>,
        tag |-> [t |-> "Byte", v |-> 0]],
    \* min_y
       [name |-> <<109, 105, 110, 95, 121>>,
        tag |-> [t |-> "Int", v |-> -64]],
    \* height
       [name |-> <<104, 101, 105, 103, 104, 116>>,
        tag |-> [t |-> "Int", v |-> 384]],
    \* logical_height
       [name |-> <<108, 111, 103, 105, 99, 97, 108, 95, 104, 101, 105, 103, 104, 116>>,
        tag |-> [t |-> "Int", v |-> 384]],
    \* infiniburn: "#minecraft:infiniburn_overworld"
       [name |-> <<105, 110, 102, 105, 110, 105, 98, 117, 114, 110>>,
        tag |-> [t |-> "String", v |-> <<35, 109, 105, 110, 101, 99, 114, 97, 102, 116, 58, 105, 110, 102, 105, 110, 105, 98, 117, 114, 110, 95, 111, 118, 101, 114, 119, 111, 114, 108, 100>>]],
    \* effects: "minecraft:overworld"
       [name |-> <<101, 102, 102, 101, 99, 116, 115>>,
        tag |-> [t |-> "String", v |-> <<109, 105, 110, 101, 99, 114, 97, 102, 116, 58, 111, 118, 101, 114, 119, 111, 114, 108, 100>>]],
    \* ambient_light: 0.0f32
       [name |-> <<97, 109, 98, 105, 101, 110, 116, 95, 108, 105, 103, 104, 116>>,
        tag |-> [t |-> "Float", v |-> <<0, 0, 0, 0>>]],
    \* piglin_safe
       [name |-> <<112, 105, 103, 108, 105, 110, 95, 115, 97, 102, 101>>,
        tag |-> [t |-> "Byte", v |-> 0]],
    \* has_raids
       [name |-> <<104, 97, 115, 95, 114, 97, 105, 100, 115>>,
        tag |-> [t |-> "Byte", v |-> 1]],
    \* monster_spawn_light_level
       [name |-> <<109, 111, 110, 115, 116, 101, 114, 95, 115, 112, 97, 119, 110, 95, 108, 105, 103, 104, 116, 95, 108, 101, 118, 101, 108>>,
        tag |-> [t |-> "Int", v |-> 0]],
    \* monster_spawn_block_light_limit
       [name |-> <<109, 111, 110, 115, 116, 101, 114, 95, 115, 112, 97, 119, 110, 95, 98, 108, 111, 99, 107, 95, 108, 105, 103, 104, 116, 95, 108, 105, 109, 105, 116>>,
        tag |-> [t |-> "Int", v |-> 0]] >>

\* DamageType::to_nbt of minecraft:in_fire
DamageTypeNbt ==
    \* scaling: "when_caused_by_living_non_player"
    << [name |-> <<115, 99, 97, 108, 105, 110, 103>>,
        tag |-> [t |-> "String", v |-> <<119, 104, 101, 110, 95, 99, 97, 117, 115, 101, 100, 95, 98, 121, 95, 108, 105, 118, 105, 110, 103, 95, 110, 111, 110, 95, 112, 108, 97, 121, 101, 114>>]],
    \* exhaustion: 0.1f32
       [name |-> <<101, 120, 104, 97, 117, 115, 116, 105, 111, 110>>,
        tag |-> [t |-> "Float", v |-> <<61, 204, 204, 205>>]],
    \* message_id: "inFire"
       [name |-> <<109, 101, 115, 115, 97, 103, 101, 95, 105, 100>>,
        tag |-> [t |-> "String", v |-> <<105, 110, 70, 105, 114, 101>>]] >>

\* BannerPattern::to_nbt of minecraft:base
BannerPatternNbt ==
    \* asset_id: "minecraft:base"
    << [name |-> <<97, 115, 115, 101, 116, 95, 105, 100>>,
        tag |-> [t |-> "String", v |-> <<109, 105, 110, 101, 99, 114, 97, 102, 116, 58, 98, 97, 115, 101>>]],
    \* translation_key: "block.minecraft.banner.base"
       [name |-> <<116, 114, 97, 110, 115, 108, 97, 116, 105, 111, 110, 95, 107, 101, 121>>,
        tag |-> [t |-> "String", v |-> <<98, 108, 111, 99, 107, 46, 109, 105, 110, 101, 99, 114, 97, 102, 116, 46, 98, 97, 110, 110, 101, 114, 46, 98, 97, 115, 101>>]] >>

\* An NBT string: u16 length, then the bytes
NbtString(s) == U16Be(Len(s)) \o s

NbtTagId(tag) ==
    CASE tag.t = "Byte" -> 1
      [] tag.t = "Int" -> 3
      [] tag.t = "Float" -> 5
      [] tag.t = "Double" -> 6
      [] tag.t = "String" -> 8
      [] tag.t = "List" -> 9
      [] tag.t = "Compound" -> 10

RECURSIVE NbtPayload(_)
RECURSIVE NbtCompoundBody(_)
\* The payload of a tag; a list is a list of strings, the only kind built here.
NbtPayload(tag) ==
    CASE tag.t = "Byte" -> <<tag.v % 256>>
      [] tag.t = "Int" -> I32Be(tag.v)
      [] tag.t = "Float" -> tag.v
      [] tag.t = "Double" -> tag.v
      [] tag.t = "String" -> NbtString(tag.v)
      [] tag.t = "List" ->
            <<8>> \o I32Be(Len(tag.v)) \o Concat([i \in 1..Len(tag.v) |-> NbtString(tag.v[i])])
      [] tag.t = "Compound" -> NbtCompoundBody(tag.v)

\* The entries of a compound, each tag id, name and payload, then TAG_End
NbtCompoundBody(entries) ==
    Concat([i \in 1..Len(entries) |->
              <<NbtTagId(entries[i].tag)>> \o NbtString(entries[i].name)
                  \o NbtPayload(entries[i].tag)])
        \o <<0>>

\* Nbt::write_unnamed: TAG_Compound, no root name, the entries
NbtWriteUnnamed(nbt) == <<10>> \o NbtCompoundBody(nbt)

\* The cursor position Nbt::to_network sets after the document was appended
\* to a vector that is now n bytes long.
NbtSetPosition(n) == n + 1

\* impl ToNetwork for Nbt: write_unnamed appends to the vector behind the
\* cursor's back, then the cursor is set from the new length.
WriteNbt(buf, nbt) ==
    LET vec == buf.vec \o NbtWriteUnnamed(nbt)
    IN  [vec |-> vec, pos |-> NbtSetPosition(Len(vec))]

----------------------------------------------------------------------------
(* The packet table (register_proto! in v1_21.rs) *)

ConnectionStates == {"Handshake", "Status", "Login", "Transfer", "Configuration", "Play"}

\* A faulty variant of ConnectionStateFromId: an unknown id is taken as Login
ConnectionStateFromIdLax(id) ==
    CASE id = 0 -> "Handshake"
      [] id = 1 -> "Status"
      [] id = 3 -> "Transfer"
      [] id = 4 -> "Configuration"
      [] id = 5 -> "Play"
      [] OTHER -> "Login"

\* impl FromNetwork for ConnectionState: unknown ids collapse to Handshake
ConnectionStateFromId(id) ==
    CASE id = 0 -> "Handshake"
      [] id = 1 -> "Status"
      [] id = 2 -> "Login"
      [] id = 3 -> "Transfer"
      [] id = 4 -> "Configuration"
      [] id = 5 -> "Play"
      [] OTHER -> "Handshake"

\* The packets in declaration order: the arms of handle_packet's match
ProtoTable ==
    << [name |-> "HandshakePacket", id |-> 0, state |-> "Handshake", dir |-> "Serverbound"],
       [name |-> "StatusRequestPacket", id |-> 0, state |-> "Status", dir |-> "Serverbound"],
       [name |-> "StatusResponsePacket", id |-> 0, state |-> "Status", dir |-> "Clientbound"],
       [name |-> "PingRequestPacket", id |-> 1, state |-> "Status", dir |-> "Serverbound"],
       [name |-> "PingResponsePacket", id |-> 1, state |-> "Status", dir |-> "Clientbound"],
       [name |-> "LoginStartPacket", id |-> 0, state |-> "Login", dir |-> "Serverbound"],
       [name |-> "LoginSuccessPacket", id |-> 2, state |-> "Login", dir |-> "Clientbound"],
       [name |-> "LoginAcknowledgedPacket", id |-> 3, state |-> "Login", dir |-> "Serverbound"],
       [name |-> "RegistryDataPacket", id |-> 7, state |-> "Configuration", dir |-> "Clientbound"],
       [name |-> "ConfigurationDisconnectPacket", id |-> 2, state |-> "Configuration",
        dir |-> "Serverbound"],
       [name |-> "FinishConfigurationPacket", id |-> 3, state |-> "Configuration",
        dir |-> "Clientbound"],
       [name |-> "AcknowledgeFinishConfigurationPacket", id |-> 3, state |-> "Configuration",
        dir |-> "Serverbound"],
       [name |-> "LoginPlayPacket", id |-> 43, state |-> "Play", dir |-> "Clientbound"],
       [name |-> "GameEventPacket", id |-> 34, state |-> "Play", dir |-> "Clientbound"] >>

\* Packet::id
PacketId(name) ==
    ProtoTable[CHOOSE i \in 1..Len(ProtoTable) : ProtoTable[i].name = name].id

\* A faulty variant of ArmMatches: the arm is chosen by the id alone
ArmMatchesAnyState(arm, id, st) ==
    arm.id = id /\ arm.dir = "Serverbound"

\* One arm of the match in handle_packet: the pattern and its guard
ArmMatches(arm, id, st) ==
    arm.id = id /\ arm.state = st /\ arm.dir = "Serverbound"

\* handle_packet's match: the first arm that matches, "Unknown" when none does
Dispatch(id, st) ==
    LET hits == {i \in 1..Len(ProtoTable) : ArmMatches(ProtoTable[i], id, st)}
    IN  IF hits = {} THEN "Unknown"
        ELSE ProtoTable[CHOOSE i \in hits : \A j \in hits : i <= j].name

----------------------------------------------------------------------------
(* StatusResponse and its JSON form (packet/status.rs, serde_json) *)

RECURSIVE Digits(_)
Digits(n) == IF n < 10 THEN <<48 + n>> ELSE Digits(n \div 10) \o <<48 + (n % 10)>>

\* an i32 as JSON: decimal digits, a minus sign first when negative
JsonI32(v) == IF v < 0 THEN <<45>> \o Digits(0 - v) ELSE Digits(v)

\* a string as JSON: quoted, the quote and the backslash escaped
JsonString(s) ==
    <<34>> \o Concat([i \in 1..Len(s) |->
                        IF s[i] \in {34, 92} THEN <<92, s[i]>> ELSE <<s[i]>>])
           \o <<34>>

\* a struct as JSON: its fields in declaration order
JsonObject(members) ==
    <<123>> \o Concat([i \in 1..Len(members) |->
                         (IF i > 1 THEN <<44>> ELSE <<>>)
                             \o JsonString(members[i].key) \o <<58>> \o members[i].value])
            \o <<125>>

\* StatusResponse::new
StatusResponseNew(name, protocol, max, online, description) ==
    [players |-> [max |-> max, online |-> online],
     version |-> [name |-> name, protocol |-> protocol],
     description |-> description]

\* A faulty variant of StatusResponseJson: the fields of version are flattened
\* into the top-level object
StatusResponseJsonFlat(r) ==
    JsonObject(<<
        [key |-> StrPlayers,
         value |-> JsonObject(<< [key |-> StrMax, value |-> JsonI32(r.players.max)],
                                 [key |-> StrOnline, value |-> JsonI32(r.players.online)] >>)],
        [key |-> StrName, value |-> JsonString(r.version.name)],
        [key |-> StrProtocol, value |-> JsonI32(r.version.protocol)],
        [key |-> StrDescription, value |-> JsonString(r.description)] >>)

\* serde_json::to_string of a StatusResponse (derive(Serialize))
StatusResponseJson(r) ==
    JsonObject(<<
        [key |-> StrPlayers,
         value |-> JsonObject(<< [key |-> StrMax, value |-> JsonI32(r.players.max)],
                                 [key |-> StrOnline, value |-> JsonI32(r.players.online)] >>)],
        [key |-> StrVersion,
         value |-> JsonObject(<< [key |-> StrName, value |-> JsonString(r.version.name)],
                                 [key |-> StrProtocol, value |-> JsonI32(r.version.protocol)] >>)],
        [key |-> StrDescription, value |-> JsonString(r.description)] >>)

----------------------------------------------------------------------------
(* Composite values on the wire.  An Option is <<>> (None) or <<x>> (Some). *)

\* Position::to_network: the packed i64
PositionPack(p) ==
    Shl64(p.x \cap (0..25), 38) \cup Shl64(p.z \cap (0..25), 12) \cup (p.y \cap (0..11))

\* A faulty variant of WriteOptionString: None is written as an empty string
WriteOptionStringAlways(buf, o) ==
    WriteString(buf, IF o = <<>> THEN <<>> ELSE o[1])

\* Option<String>::to_network
WriteOptionString(buf, o) == IF o = <<>> THEN buf ELSE WriteString(buf, o[1])

\* Option<Position>::to_network
WriteOptionPosition(buf, o) ==
    IF o = <<>> THEN buf ELSE BufWrite(buf, I64Be(PositionPack(o[1])))

\* Property::to_network
WriteProperty(buf, p) ==
    LET b == WriteBool(WriteString(WriteString(buf, p.name), p.value), p.signed)
    IN  IF p.signature = <<>> THEN b ELSE WriteString(b, p.signature[1])

RECURSIVE WriteEachProperty(_, _)
WriteEachProperty(buf, ps) ==
    IF ps = <<>> THEN buf ELSE WriteEachProperty(WriteProperty(buf, Head(ps)), Tail(ps))

\* Vec<Property>::to_network
WriteProperties(buf, ps) ==
    WriteEachProperty(BufWrite(buf, VarIntToNetwork(Len(ps))), ps)

\* RegistryEntry::to_network
WriteRegistryEntry(buf, e) ==
    LET b == WriteBool(WriteString(buf, e.entry_id), e.has_data)
    IN  IF e.has_data THEN WriteNbt(b, e.data) ELSE b

RECURSIVE WriteEachEntry(_, _)
WriteEachEntry(buf, es) ==
    IF es = <<>> THEN buf ELSE WriteEachEntry(WriteRegistryEntry(buf, Head(es)), Tail(es))

\* Vec<RegistryEntry>::to_network
WriteEntries(buf, es) ==
    WriteEachEntry(BufWrite(buf, VarIntToNetwork(Len(es))), es)

\* LoginPlayPacket::to_network: every field in declaration order
WriteLoginPlay(buf, p) ==
    LET b1  == BufWrite(buf, I32Be(p.entity_id))
        b2  == WriteBool(b1, p.is_hardcore)
        b3  == WriteStrings(b2, p.dimension_names)
        b4  == BufWrite(b3, VarIntToNetwork(p.max_players))
        b5  == BufWrite(b4, VarIntToNetwork(p.view_distance))
        b6  == BufWrite(b5, VarIntToNetwork(p.simulation_distance))
        b7  == WriteBool(b6, p.reduced_debug_info)
        b8  == WriteBool(b7, p.enable_respawn_screen)
        b9  == WriteBool(b8, p.do_limited_crafting)
        b10 == BufWrite(b9, VarIntToNetwork(p.dimension_type))
        b11 == WriteString(b10, p.dimension_name)
        b12 == BufWrite(b11, I64Be(p.hashed_seed))
        b13 == BufWrite(b12, <<p.game_mode>>)
        b14 == BufWrite(b13, <<p.previous_game_mode % 256>>)
        b15 == WriteBool(b14, p.is_debug)
        b16 == WriteBool(b15, p.is_flat)
        b17 == WriteBool(b16, p.has_death_location)
        b18 == WriteOptionString(b17, p.death_dimension_name)
        b19 == WriteOptionPosition(b18, p.death_location)
        b20 == BufWrite(b19, VarIntToNetwork(p.portal_cooldown))
    IN  WriteBool(b20, p.enforces_secure_chat)

\* ToNetwork of the Clientbound packets (register_proto!): the fields in
\* declaration order, nothing between them
PacketToNetwork(buf, p) ==
    CASE p.name = "StatusResponsePacket" -> WriteString(buf, StatusResponseJson(p.response))
      [] p.name = "PingResponsePacket" -> BufWrite(buf, I64Be(p.payload))
      [] p.name = "LoginSuccessPacket" ->
            WriteBool(WriteProperties(WriteString(BufWrite(buf, p.uuid), p.username),
                                      p.properties),
                      p.strict_error_handling)
      [] p.name = "RegistryDataPacket" ->
            WriteEntries(WriteString(buf, p.registry_id), p.entries)
      [] p.name = "FinishConfigurationPacket" -> buf
      [] p.name = "LoginPlayPacket" -> WriteLoginPlay(buf, p)
      [] p.name = "GameEventPacket" -> BufWrite(BufWrite(buf, <<p.event>>), p.value)

\* MinecraftClient::send_packet: the buffer handed to listener.write
\* send_packet once id and packet are written: the length of the vector is
\* written at the cursor and rotated to the front
PrependLength(buf, packet_length) ==
    RotateRight(BufWrite(buf, VarIntToNetwork(packet_length)).vec,
                GetSizeInBytes(packet_length))

\* ByteBuf::len
BufLen(buf) == Len(buf.vec)

SendPacketBuf(buf) == PrependLength(buf, BufLen(buf))

SendPacket(p) ==
    SendPacketBuf(PacketToNetwork(BufWrite(NewEmpty, VarIntToNetwork(PacketId(p.name))), p))

----------------------------------------------------------------------------
(* Decoding the Serverbound packets (register_proto! FromNetwork) *)

NoPacket == [name |-> "none"]

\* A decoder at work: whether it panicked, the values read so far, the buffer
DecodeStart(data) == [panic |-> FALSE, vals |-> <<>>, buf |-> NewBuf(data)]

\* FromNetwork of one field, by its type: [panic, val, buf].  A panic is an
\* unwrap() or an overflow check that fails while the field is decoded.
FieldFromNetwork(buf, type, bld) ==
    CASE type = "VarInt" -> ReadVarInt(buf, bld)
      [] type = "String" -> ReadString(buf, bld)
      [] type = "u16" ->
            [panic |-> FALSE, val |-> U16FromBe(BufRead(buf, 2).bytes),
             buf |-> BufRead(buf, 2).buf]
      [] type = "i64" ->
            [panic |-> FALSE, val |-> I64FromBe(BufRead(buf, 8).bytes),
             buf |-> BufRead(buf, 8).buf]
      [] type = "Uuid" ->
            [panic |-> FALSE, val |-> BufRead(buf, 16).bytes, buf |-> BufRead(buf, 16).buf]
      [] type = "ConnectionState" ->
            [panic |-> ReadVarInt(buf, bld).panic,
             val |-> ConnectionStateFromId(ReadVarInt(buf, bld).val),
             buf |-> ReadVarInt(buf, bld).buf]

TakeField(acc, f) == [panic |-> f.panic, vals |-> Append(acc.vals, f.val), buf |-> f.buf]

\* the fields one after the other, each from where the one before stopped
RECURSIVE FieldsFromNetwork(_, _, _)
FieldsFromNetwork(acc, types, bld) ==
    IF types = <<>> \/ acc.panic
    THEN acc
    ELSE FieldsFromNetwork(TakeField(acc, FieldFromNetwork(acc.buf, Head(types), bld)),
                           Tail(types), bld)

\* The fields of the Serverbound packets, in declaration order
PacketFields(name) ==
    CASE name = "HandshakePacket" -> <<"VarInt", "String", "u16", "ConnectionState">>
      [] name = "PingRequestPacket" -> <<"i64">>
      [] name = "LoginStartPacket" -> <<"String", "Uuid">>
      [] name = "ConfigurationDisconnectPacket" -> <<"String">>
      [] OTHER -> <<>>

PacketOf(name, vals) ==
    CASE name = "HandshakePacket" ->
            [name |-> name, protocol_version |-> vals[1], server_address |-> vals[2],
             server_port |-> vals[3], next_state |-> vals[4]]
      [] name = "PingRequestPacket" -> [name |-> name, payload |-> vals[1]]
      [] name = "LoginStartPacket" -> [name |-> name, username |-> vals[1], uuid |-> vals[2]]
      [] name = "ConfigurationDisconnectPacket" -> [name |-> name, reason |-> vals[1]]
      [] OTHER -> [name |-> name]

Decoded(name, f) ==
    [panic |-> f.panic, packet |-> IF f.panic THEN NoPacket ELSE PacketOf(name, f.vals)]

\* $packet_name::from_network: [panic, packet]
DecodePacket(name, data, bld) ==
    Decoded(name, FieldsFromNetwork(DecodeStart(data), PacketFields(name), bld))

----------------------------------------------------------------------------
(* The handlers (impl Handleable, v1_21.rs) and the registry burst *)

\* A faulty variant of HandshakeNextState: every next_state is taken over
HandshakeNextStateAny(st, next) == next

\* A faulty variant of HandshakeNextState: only Status is taken over
HandshakeNextStateStatusOnly(st, next) ==
    IF next = "Status" THEN next ELSE st

\* HandshakePacket::handle: only Status, Login and Transfer are taken over
HandshakeNextState(st, next) ==
    IF next \in {"Status", "Login", "Transfer"} THEN next ELSE st

\* StatusRequestPacket::handle
StatusResponsePacket ==
    [name |-> "StatusResponsePacket",
     response |-> StatusResponseNew(StrStatusName, 766, 20, 0, StrStatusDescription)]

\* A faulty variant of PingResponsePacket: the payload is not taken over
PingResponsePacketZero(p) == [name |-> "PingResponsePacket", payload |-> {}]

\* PingRequestPacket::handle
PingResponsePacket(p) == [name |-> "PingResponsePacket", payload |-> p.payload]

\* A faulty variant of LoginSuccessPacket: strict_error_handling is set
LoginSuccessPacketStrict(p) ==
    [name |-> "LoginSuccessPacket", uuid |-> p.uuid, username |-> p.username,
     properties |-> <<>>, strict_error_handling |-> TRUE]

\* LoginStartPacket::handle
LoginSuccessPacket(p) ==
    [name |-> "LoginSuccessPacket", uuid |-> p.uuid, username |-> p.username,
     properties |-> <<>>, strict_error_handling |-> FALSE]

\* send_registry_packets: the registries in the order they are sent, each with
\* its one entry
RegistryBurst ==
    << [registry_id |-> StrRegBiome, entry_id |-> StrBadlands, data |-> BiomeNbt],
       [registry_id |-> StrRegChatType, entry_id |-> StrChat, data |-> ChatTypeNbt],
       [registry_id |-> StrRegTrimPattern, entry_id |-> StrCoast, data |-> TrimPatternNbt],
       [registry_id |-> StrRegTrimMaterial, entry_id |-> StrAmethyst, data |-> TrimMaterialNbt],
       [registry_id |-> StrRegWolfVariant, entry_id |-> StrAshen, data |-> WolfVariantNbt],
       [registry_id |-> StrRegDimensionType, entry_id |-> StrOverworld,
        data |-> DimensionTypeNbt],
       [registry_id |-> StrRegDamageType, entry_id |-> StrInFire, data |-> DamageTypeNbt],
       [registry_id |-> StrRegBannerPattern, entry_id |-> StrBase, data |-> BannerPatternNbt] >>

RegistryDataPacket(r) ==
    [name |-> "RegistryDataPacket", registry_id |-> r.registry_id,
     entries |-> << [entry_id |-> r.entry_id, has_data |-> TRUE, data |-> r.data] >>]

\* send_registry_packets: the packets it sends, in order
SendRegistryPackets ==
    [i \in 1..Len(RegistryBurst) |-> RegistryDataPacket(RegistryBurst[i])]
        \o << [name |-> "FinishConfigurationPacket"] >>

\* AcknowledgeFinishConfigurationPacket::handle: the LoginPlay it sends
LoginPlayPacket ==
    [name |-> "LoginPlayPacket",
     entity_id |-> 1,
     is_hardcore |-> FALSE,
     dimension_names |-> <<StrOverworld>>,
     max_players |-> 20,
     view_distance |-> 12,
     simulation_distance |-> 12,
     reduced_debug_info |-> FALSE,
     enable_respawn_screen |-> FALSE,
     do_limited_crafting |-> FALSE,
     dimension_type |-> 0,
     dimension_name |-> StrOverworld,
     hashed_seed |-> {},
     game_mode |-> 0,
     previous_game_mode |-> -1,
     is_debug |-> FALSE,
     is_flat |-> FALSE,
     has_death_location |-> FALSE,
     death_dimension_name |-> <<>>,
     death_location |-> <<>>,
     portal_cooldown |-> 0,
     enforces_secure_chat |-> FALSE]

\* ... and the GameEvent: event 13, value 0.0f32 (all four bytes zero)
GameEventPacket == [name |-> "GameEventPacket", event |-> 13, value |-> <<0, 0, 0, 0>>]

\* $packet_name::handle: the state it leaves and the packets it sends, in order
Handler(st, p) ==
    CASE p.name = "HandshakePacket" ->
            [state |-> HandshakeNextState(st, p.next_state), sends |-> <<>>]
      [] p.name = "StatusRequestPacket" -> [state |-> st, sends |-> <<StatusResponsePacket>>]
      [] p.name = "PingRequestPacket" -> [state |-> st, sends |-> <<PingResponsePacket(p)>>]
      [] p.name = "LoginStartPacket" -> [state |-> st, sends |-> <<LoginSuccessPacket(p)>>]
      [] p.name = "LoginAcknowledgedPacket" ->
            [state |-> "Configuration", sends |-> SendRegistryPackets]
      [] p.name = "ConfigurationDisconnectPacket" -> [state |-> st, sends |-> <<>>]
      [] p.name = "AcknowledgeFinishConfigurationPacket" ->
            [state |-> "Play", sends |-> <<LoginPlayPacket, GameEventPacket>>]

----------------------------------------------------------------------------
(* What a client sends: frames of the Serverbound packets, and other bytes *)

\* A frame as a client writes it: VarInt length, VarInt id, payload
Frame(id, payload) ==
    LET body == VarIntToNetwork(id) \o payload
    IN  VarIntToNetwork(Len(body)) \o body

\* Handshake: protocol 766, "127.0.0.1", port 25565, next_state as a VarInt
HandshakeFrame(next) ==
    Frame(0, VarIntToNetwork(766) \o VarIntToNetwork(Len(StrLocalhost)) \o StrLocalhost
                 \o U16Be(25565) \o VarIntToNetwork(next))

\* the next_state ids a client may send: the six states, and two unknown ids
NextStateIds == {0, 1, 2, 3, 4, 5, 6, -1}

LoginStartFrame(username, uuid) ==
    Frame(0, VarIntToNetwork(Len(username)) \o username \o uuid)

Usernames == {StrAlice, <<98, 111>>}

Uuids == {Zeros(16), [i \in 1..16 |-> 16 * i - 1]}

PingFrame(payload) == Frame(1, payload)

PingPayloads == {<<0, 0, 0, 0, 0, 0, 0, 1>>, <<255, 254, 3, 4, 5, 6, 7, 128>>}

\* ids sent with no payload: StatusRequest (0), LoginAcknowledged and
\* AcknowledgeFinishConfiguration (3), ids that are Clientbound only, and
\* ids of no packet
BareIds == {0, 2, 3, 5, 7, 34, 43, -1}

\* Two frames that one socket read returns together: Handshake to Status,
\* then StatusRequest
TwoFrames == HandshakeFrame(1) \o Frame(0, <<>>)

\* One frame that two socket reads return in two parts: Handshake to Login,
\* cut after its eighth byte
SplitFrame == HandshakeFrame(2)

SplitHead == SubSeq(SplitFrame, 1, 8)

SplitTail == SubSeq(SplitFrame, 9, Len(SplitFrame))

\* A StatusRequest frame whose length 1 is written in six bytes, the fifth
\* with its continuation bit set
OverLongFrame == <<129, 128, 128, 128, 128, 0>> \o <<0>>

\* the bytes one socket read can return
Chunks ==
    {HandshakeFrame(n) : n \in NextStateIds}
        \cup {LoginStartFrame(u, id) : u \in Usernames, id \in Uuids}
        \cup {PingFrame(p) : p \in PingPayloads}
        \cup {Frame(id, <<>>) : id \in BareIds}
        \cup { Frame(2, <<3, 98, 121, 101>>),        \* ConfigurationDisconnect("bye")
               Frame(0, <<1, 255>> \o Zeros(16)),     \* a string that is not UTF-8
               Frame(2, <<1, 255>>),
               [i \in 1..12 |-> IF i < 12 THEN 255 ELSE 1], \* an over-long VarInt
               TwoFrames, SplitHead, SplitTail, OverLongFrame }

----------------------------------------------------------------------------
(* The connection: MinecraftClient::connect *)

HandledPacketOf(f) ==
    IF f.panic
    THEN [panic |-> TRUE, packet_length |-> 0, packet_id |-> 0, packet_data |-> <<>>]
    ELSE [panic |-> FALSE, packet_length |-> f.vals[1], packet_id |-> f.vals[2],
          packet_data |-> GetRest(f.buf)]

\* ConnectionResult::handle_packet: the length, the id, and the rest as data
HandledPacket(chunk, bld) ==
    HandledPacketOf(FieldsFromNetwork(DecodeStart(chunk), <<"VarInt", "VarInt">>, bld))

\* MinecraftClient::new
ClientNew ==
    /\ state = "Handshake"
    /\ connected = TRUE
    /\ pc = "reading"
    /\ sent = <<>>
    /\ written = <<>>
    /\ log = [line |-> "none", state |-> "Handshake", id |-> 0, packet |-> NoPacket]
    /\ rx = <<>>
    /\ nreads = 0

Clients == 1..MaxClients

\* MinecraftServer::new: the listener is bound and no client has connected
ServerNew ==
    /\ srv_pc = "accept"
    /\ serving = 0
    /\ conn = [c \in Clients |-> "none"]
    /\ backlog = <<>>
    /\ inbox = [c \in Clients |-> <<>>]
    /\ turns = [c \in Clients |-> 0]

\* no value has been given to the codec
CodecNew ==
    /\ cin = [type |-> "none"]
    /\ cpc = "start"
    /\ cbuf = NewEmpty
    /\ cout = [panic |-> FALSE, val |-> 0, buf |-> NewEmpty]

\* ServerConnection::new: threshold 256, running, nothing accepted
CoreNew ==
    /\ compression_threshold = 256
    /\ is_running = TRUE
    /\ core_pc = "check"
    /\ core_clients = <<>>
    /\ core_backlog = 0

\* One connection, the socket already accepted
Init ==
    /\ ClientNew
    /\ build \in {"debug", "release"}
    /\ ServerNew
    /\ CodecNew
    /\ CoreNew

\* listener.read returned the bytes of chunk and the loop goes on to handle them
ReadReturns(chunk) ==
    /\ pc = "reading"
    /\ connected
    /\ nreads < MaxReads
    /\ chunk \in Chunks
    /\ rx' = chunk
    /\ nreads' = nreads + 1
    /\ UNCHANGED <<connected, build, serverVars, codecVars, coreVars>>

\* A faulty variant of Respond: the writes are left to run on their own and
\* the task is back at the read before any of them has reached the socket
RespondDetached(hp, packet, h, fail) ==
    /\ fail <= Len(h.sends)
    /\ state' = h.state
    /\ sent' = <<>>
    /\ written' = written
    /\ pc' = "reading"
    /\ log' = [line |-> "Handling", state |-> state, id |-> hp.packet_id,
               packet |-> packet]

\* packet.handle(client) with h what the handler does: the state it sets and
\* its send_packet calls, which hand their buffers to the socket in order.
\* When fail > 0 the fail-th write returns an error and its unwrap() panics.
Respond(hp, packet, h, fail) ==
    /\ fail <= Len(h.sends)
    /\ state' = h.state
    /\ sent' = [i \in 1..(IF fail = 0 THEN Len(h.sends) ELSE fail) |->
                  SendPacket(h.sends[i])]
    /\ written' = written \o [i \in 1..(IF fail = 0 THEN Len(h.sends) ELSE fail) |->
                                h.sends[i].name]
    /\ pc' = IF fail = 0 THEN "reading" ELSE "panicked"
    /\ log' = [line |-> "Handling", state |-> state, id |-> hp.packet_id,
               packet |-> packet]

\* the body of an arm once the packet is decoded: print, then handle
HandleDecoded(hp, d, fail) ==
    /\ ~d.panic
    /\ Respond(hp, d.packet, Handler(state, d.packet), fail)

\* the arm of packet `name` in the match of handle_packet
HandleArm(name, hp, fail) ==
    /\ ~hp.panic
    /\ Dispatch(hp.packet_id, state) = name
    /\ HandleDecoded(hp, DecodePacket(name, hp.packet_data, build), fail)

\* One action per arm: a turn of the loop of connect in which the socket read
\* returns a chunk and the match of handle_packet takes that arm.

HandleHandshake ==
    \E chunk \in Chunks :
        /\ ReadReturns(chunk)
        /\ HandleArm("HandshakePacket", HandledPacket(chunk, build), 0)

HandleStatusRequest ==
    \E chunk \in Chunks, fail \in 0..1 :
        /\ ReadReturns(chunk)
        /\ HandleArm("StatusRequestPacket", HandledPacket(chunk, build), fail)

HandlePingRequest ==
    \E chunk \in Chunks, fail \in 0..1 :
        /\ ReadReturns(chunk)
        /\ HandleArm("PingRequestPacket", HandledPacket(chunk, build), fail)

HandleLoginStart ==
    \E chunk \in Chunks, fail \in 0..1 :
        /\ ReadReturns(chunk)
        /\ HandleArm("LoginStartPacket", HandledPacket(chunk, build), fail)

HandleLoginAcknowledged ==
    \E chunk \in Chunks, fail \in 0..Len(SendRegistryPackets) :
        /\ ReadReturns(chunk)
        /\ HandleArm("LoginAcknowledgedPacket", HandledPacket(chunk, build), fail)

HandleConfigurationDisconnect ==
    \E chunk \in Chunks :
        /\ ReadReturns(chunk)
        /\ HandleArm("ConfigurationDisconnectPacket", HandledPacket(chunk, build), 0)

HandleAcknowledgeFinishConfiguration ==
    \E chunk \in Chunks, fail \in 0..2 :
        /\ ReadReturns(chunk)
        /\ HandleArm("AcknowledgeFinishConfigurationPacket", HandledPacket(chunk, build), fail)

\* the arm `_` of the match: "Unknown packet" is printed
UnknownArm(hp) ==
    /\ ~hp.panic
    /\ Dispatch(hp.packet_id, state) = "Unknown"
    /\ log' = [line |-> "Unknown", state |-> state, id |-> hp.packet_id, packet |-> NoPacket]

\* No arm matches and the loop reads again
HandleUnknown ==
    \E chunk \in Chunks :
        /\ ReadReturns(chunk)
        /\ UnknownArm(HandledPacket(chunk, build))
        /\ sent' = <<>>
        /\ UNCHANGED <<state, pc, written>>

\* whether decoding the chunk panics: in a VarInt of the header, or in a
\* field of the packet whose arm is taken
PanicsOn(hp, bld, st) ==
    \/ hp.panic
    \/ /\ Dispatch(hp.packet_id, st) # "Unknown"
       /\ DecodePacket(Dispatch(hp.packet_id, st), hp.packet_data, bld).panic

\* The task panics before anything is printed or handled
DecodePanics ==
    \E chunk \in Chunks :
        /\ ReadReturns(chunk)
        /\ PanicsOn(HandledPacket(chunk, build), build, state)
        /\ pc' = "panicked"
        /\ sent' = <<>>
        /\ UNCHANGED <<state, log, written>>

\* A faulty variant of ReadEof: the empty read is given to handle_packet
\* before the loop breaks
ReadEofHandled ==
    /\ pc = "reading"
    /\ pc' = "closed"
    /\ rx' = <<>>
    /\ log' = [line |-> "Unknown", state |-> state, id |-> 0, packet |-> NoPacket]
    /\ sent' = <<>>
    /\ UNCHANGED <<state, connected, written, build, nreads, serverVars, codecVars,
                   coreVars>>

\* listener.read returned 0: the peer closed, the loop breaks
ReadEof ==
    /\ pc = "reading"
    /\ pc' = "closed"
    /\ UNCHANGED <<state, connected, sent, written, log, rx, build, nreads,
                   serverVars, codecVars, coreVars>>

\* listener.read returned an error: unwrap() panics
ReadFails ==
    /\ pc = "reading"
    /\ pc' = "panicked"
    /\ UNCHANGED <<state, connected, sent, written, log, rx, build, nreads,
                   serverVars, codecVars, coreVars>>

Next ==
    \/ HandleHandshake
    \/ HandleStatusRequest
    \/ HandlePingRequest
    \/ HandleLoginStart
    \/ HandleLoginAcknowledged
    \/ HandleConfigurationDisconnect
    \/ HandleAcknowledgeFinishConfiguration
    \/ HandleUnknown
    \/ DecodePanics
    \/ ReadEof
    \/ ReadFails

Spec == Init /\ [][Next]_vars

----------------------------------------------------------------------------
(* The acceptor: MinecraftServerConnection::connect and new_client           *)
(* (tcp/server/connection.rs).  A connection is followed at the grain of the *)
(* turns of MinecraftClient::connect: what the next socket read returns      *)
(* decides whether the turn completes, the loop breaks or the task panics.   *)

\* What a client can have written that the server has not read: a packet the
\* read loop handles and survives, bytes that make a decoder panic (a string
\* that is not UTF-8), the end of the stream, a reset of the connection
InboxItems == {"packet", "invalid", "fin", "rst"}

ServerInit ==
    /\ ClientNew
    /\ build \in {"debug", "release"}
    /\ ServerNew
    /\ CodecNew
    /\ CoreNew

\* A client connects: the kernel completes the handshake and holds the
\* connection in the listener's queue until accept() returns it
ClientConnects(c) ==
    /\ conn[c] = "none"
    /\ conn' = [conn EXCEPT ![c] = "queued"]
    /\ backlog' = Append(backlog, c)
    /\ UNCHANGED <<srv_pc, serving, inbox, turns, connVars, build, codecVars, coreVars>>

\* A client writes to its socket, closes it or resets it; nothing follows the
\* end of a stream
ClientWrites(c, item) ==
    /\ conn[c] \in {"queued", "open"}
    /\ turns[c] + Len(inbox[c]) < MaxPending
    /\ IF inbox[c] = <<>> THEN TRUE ELSE inbox[c][Len(inbox[c])] \notin {"fin", "rst"}
    /\ inbox' = [inbox EXCEPT ![c] = Append(@, item)]
    /\ UNCHANGED <<srv_pc, serving, conn, backlog, turns, connVars, build, codecVars, coreVars>>

\* self.listener.accept().await.unwrap() returns a socket and new_client is
\* awaited in place: MinecraftClient::new(socket), then client.connect().await
Accept ==
    /\ srv_pc = "accept"
    /\ backlog # <<>>
    /\ srv_pc' = "serving"
    /\ serving' = Head(backlog)
    /\ backlog' = Tail(backlog)
    /\ conn' = [conn EXCEPT ![Head(backlog)] = "open"]
    /\ UNCHANGED <<inbox, turns, connVars, build, codecVars, coreVars>>

\* accept() returns an error and unwrap() panics
AcceptFails ==
    /\ srv_pc = "accept"
    /\ srv_pc' = "panicked"
    /\ UNCHANGED <<serving, conn, backlog, inbox, turns, connVars, build, codecVars, coreVars>>

\* A turn of the read loop of the connection being served: the read returns
\* a packet, it is handled and the loop reads again
ServeTurn ==
    /\ srv_pc = "serving"
    /\ inbox[serving] # <<>>
    /\ Head(inbox[serving]) = "packet"
    /\ inbox' = [inbox EXCEPT ![serving] = Tail(@)]
    /\ turns' = [turns EXCEPT ![serving] = @ + 1]
    /\ UNCHANGED <<srv_pc, serving, conn, backlog, connVars, build, codecVars, coreVars>>

\* The read returns 0: the loop breaks, client.connect() and new_client
\* return, and the accept loop goes round
ServeEof ==
    /\ srv_pc = "serving"
    /\ inbox[serving] # <<>>
    /\ Head(inbox[serving]) = "fin"
    /\ inbox' = [inbox EXCEPT ![serving] = Tail(@)]
    /\ conn' = [conn EXCEPT ![serving] = "closed"]
    /\ srv_pc' = "accept"
    /\ serving' = 0
    /\ UNCHANGED <<backlog, turns, connVars, build, codecVars, coreVars>>

\* The read returns an error, or bytes whose decoding panics: the panic
\* unwinds out of client.connect(), out of new_client and out of the accept
\* loop that awaits it; the socket is dropped on the way
ServeFatal ==
    /\ srv_pc = "serving"
    /\ inbox[serving] # <<>>
    /\ Head(inbox[serving]) \in {"invalid", "rst"}
    /\ inbox' = [inbox EXCEPT ![serving] = Tail(@)]
    /\ conn' = [conn EXCEPT ![serving] = "died"]
    /\ srv_pc' = "panicked"
    /\ UNCHANGED <<serving, backlog, turns, connVars, build, codecVars, coreVars>>

ServerNext ==
    \/ \E c \in Clients : ClientConnects(c)
    \/ \E c \in Clients, item \in InboxItems : ClientWrites(c, item)
    \/ Accept
    \/ AcceptFails
    \/ ServeTurn
    \/ ServeEof
    \/ ServeFatal

\* The scheduler runs a task that is ready: a step of the acceptor or of the
\* connection it serves that stays possible is taken.  Clients are free to
\* stay silent.
ServerSpec ==
    /\ ServerInit
    /\ [][ServerNext]_vars
    /\ WF_vars(Accept)
    /\ WF_vars(ServeTurn)
    /\ WF_vars(ServeEof)
    /\ WF_vars(ServeFatal)

----------------------------------------------------------------------------
(* VarLong (register_varnum!(VarLong, i64, u64, 10)) and Position, and a    *)
(* round of the codec: a value is written to an empty ByteBuf and read back *)
(* from the bytes written, followed by whatever the peer sent next.         *)

\* A faulty variant of Shr7Bits: the shift is by a whole byte
Shr8Bits(bits) == {b - 8 : b \in {x \in bits : x >= 8}}

\* value >>= 7 on a u64
Shr7Bits(bits) == {b - 7 : b \in {x \in bits : x >= 7}}

\* VarLong::to_network, on the u64 image of the i64
RECURSIVE VarLongToNetwork(_)
VarLongToNetwork(bits) ==
    IF \E b \in bits : b >= 7
    THEN <<(ByteAt(bits, 0) % 128) + 128>> \o VarLongToNetwork(Shr7Bits(bits))
    ELSE <<ByteAt(bits, 0)>>

RECURSIVE VarLongLoop(_, _, _, _)
\* One turn of the loop of VarLong::from_network; result as i64 keeps every bit
VarLongTurn(r, result, shift, bld) ==
    IF ShiftOverflows(shift, bld)
    THEN [panic |-> TRUE, val |-> {}, buf |-> r.buf]
    ELSE IF r.bytes[1] < 128
         THEN [panic |-> FALSE, val |-> VarNumOr(result, r.bytes[1], shift), buf |-> r.buf]
         ELSE VarLongLoop(r.buf, VarNumOr(result, r.bytes[1], shift), shift + 7, bld)

VarLongLoop(buf, result, shift, bld) == VarLongTurn(BufRead(buf, 1), result, shift, bld)

\* VarLong::from_network: [panic, val, buf]
ReadVarLong(buf, bld) == VarLongLoop(buf, {}, 0, bld)

\* value >> s on an i64: the sign bit fills from the top
Sar64(bits, s) ==
    {b - s : b \in {x \in bits : x >= s}} \cup (IF 63 \in bits THEN (64 - s)..63 ELSE {})

\* A faulty variant of PositionFromLong: the shifts are those of a u64
PositionFromLongUnsigned(value) ==
    [x |-> {b - 38 : b \in {x \in value : x >= 38}},
     y |-> value \cap (0..11),
     z |-> {b - 12 : b \in {x \in value : x >= 12 /\ x <= 37}}]

\* Position::from_network, after read_long
PositionFromLong(value) ==
    [x |-> Sar64(value, 38),
     y |-> Sar64(Shl64(value, 52), 52),
     z |-> Sar64(Shl64(value, 26), 38)]

\* T::to_network for the value v of type `type`: the buffer after the write
ValueToNetwork(buf, type, v) ==
    CASE type = "VarInt" -> BufWrite(buf, VarIntToNetwork(v))
      [] type = "VarLong" -> BufWrite(buf, VarLongToNetwork(v))
      [] type = "Position" -> BufWrite(buf, I64Be(PositionPack(v)))

\* T::from_network: [panic, val, buf]
ValueFromNetwork(buf, type, bld) ==
    CASE type = "VarInt" -> ReadVarInt(buf, bld)
      [] type = "VarLong" -> ReadVarLong(buf, bld)
      [] type = "Position" ->
            [panic |-> FALSE, val |-> PositionFromLong(I64FromBe(BufRead(buf, 8).bytes)),
             buf |-> BufRead(buf, 8).buf]

\* The i64 of an integer n, -2^30 <= n < 2^30
I64OfInt(n) ==
    {i \in 0..29 : ((n % (2^30)) \div (2^i)) % 2 = 1} \cup (IF n < 0 THEN 30..63 ELSE {})

\* The i32 values written: the powers of two and their neighbours, of both
\* signs, with every boundary of the length table and MIN, -1, 0, 1, MAX
VarIntInputs ==
    {0, (2^30 - 1) + 2^30, (-(2^30)) - 2^30}
        \cup {2^k : k \in 0..30} \cup {2^k - 1 : k \in 0..30}
        \cup {-(2^k) : k \in 0..30} \cup {(-(2^k)) - 1 : k \in 0..30}

\* The i64 values written: 2^k, 2^k - 1, -(2^k) and MAX, with 0, 1, -1 and MIN
VarLongInputs ==
    {{k} : k \in 0..63} \cup {0..(k - 1) : k \in 0..63} \cup {k..63 : k \in 0..63}

\* The positions written: x and z over their 26 bits, y over its 12 bits
PositionXZ == {-33554432, -33554431, -4097, -1, 0, 1, 4096, 33554431}

PositionY == {-2048, -2047, -1, 0, 1, 2047}

PositionInputs ==
    {[x |-> I64OfInt(x), y |-> I64OfInt(y), z |-> I64OfInt(z)] :
        x \in PositionXZ, y \in PositionY, z \in PositionXZ}

\* what may follow the value on the wire
CodecTails == {<<>>, <<255>>}

\* the values of one type, each with what follows it
CodecInputs(type, values) ==
    {[type |-> type, v |-> v, tail |-> t] : v \in values, t \in CodecTails}

CodecInit ==
    /\ ClientNew
    /\ build \in {"debug", "release"}
    /\ ServerNew
    /\ CoreNew
    /\ \/ cin \in CodecInputs("VarInt", VarIntInputs)
       \/ cin \in CodecInputs("VarLong", VarLongInputs)
       \/ cin \in CodecInputs("Position", PositionInputs)
    /\ cpc = "start"
    /\ cbuf = NewEmpty
    /\ cout = [panic |-> FALSE, val |-> 0, buf |-> NewEmpty]

\* buf.write_to(value) on ByteBuf::new_empty()
CodecWrite ==
    /\ cpc = "start"
    /\ cbuf' = ValueToNetwork(NewEmpty, cin.type, cin.v)
    /\ cpc' = "written"
    /\ UNCHANGED <<cin, cout, connVars, build, serverVars, coreVars>>

\* VarInt::get_size_in_bytes of the value written
CodecSize ==
    /\ cpc = "written"
    /\ cin.type = "VarInt"
    /\ cout' = [panic |-> FALSE, val |-> GetSizeInBytes(cin.v), buf |-> cbuf]
    /\ cpc' = "sized"
    /\ UNCHANGED <<cin, cbuf, connVars, build, serverVars, coreVars>>

\* buf.read_from() on a ByteBuf::new of the bytes written and what follows
CodecRead ==
    /\ cpc = "written"
    /\ cout' = ValueFromNetwork(NewBuf(cbuf.vec \o cin.tail), cin.type, build)
    /\ cpc' = "read"
    /\ UNCHANGED <<cin, cbuf, connVars, build, serverVars, coreVars>>

CodecNext ==
    \/ CodecWrite
    \/ CodecSize
    \/ CodecRead

CodecSpec == CodecInit /\ [][CodecNext]_vars

----------------------------------------------------------------------------
(* What the properties below read off a state *)

\* The last turn of the loop handled packet `name`, read in state st, and the
\* task has not panicked since (log and rx are then of the same turn)
Handled(name, st) ==
    /\ pc # "panicked"
    /\ log.line = "Handling"
    /\ log.packet.name = name
    /\ log.state = st

\* The byte stream the socket was given since the last read, cut into frames
\* as a reader of the protocol cuts it: a VarInt length, then that many bytes.
\* The result is the frames' bodies; bytes that end short of their declared
\* length are a last, truncated body.
RECURSIVE StreamFrames(_)
StreamFramesAfter(l, rest) ==
    IF l.val < 0 \/ l.val >= Len(rest)
    THEN <<rest>>
    ELSE <<SubSeq(rest, 1, l.val)>> \o StreamFrames(SubSeq(rest, l.val + 1, Len(rest)))

StreamFramesFrom(l) == StreamFramesAfter(l, GetRest(l.buf))

StreamFrames(bytes) ==
    IF bytes = <<>> THEN <<>> ELSE StreamFramesFrom(ReadVarInt(NewBuf(bytes), "release"))

\* the frames written since the last read
SentFrames == StreamFrames(Concat(sent))

\* the packet id at the head of a frame's body, -1 when the body is empty
FrameId(body) ==
    IF body = <<>> THEN -1 ELSE ReadVarInt(NewBuf(body), "release").val

----------------------------------------------------------------------------
(* C1 *)

\* The Serverbound packets whose handler assigns client.state, each with the
\* id and the state it is read in
StateChangingEntries ==
    { <<"HandshakePacket", 0, "Handshake">>,
      <<"LoginAcknowledgedPacket", 3, "Login">>,
      <<"AcknowledgeFinishConfigurationPacket", 3, "Configuration">> }

\* C1: the connection state starts at Handshake and every step that changes
\* it is a turn in which handle_packet ran the handler of Handshake (id 0 read
\* in Handshake), LoginAcknowledged (id 3 read in Login) or
\* AcknowledgeFinishConfiguration (id 3 read in Configuration); Configuration
\* is entered only from Login and Play only from Configuration.
C1_StateChangesOnlyInHandlers ==
    /\ state = "Handshake"
    /\ [][state' # state =>
            /\ log'.line = "Handling"
            /\ log'.state = state
            /\ <<log'.packet.name, log'.id, state>> \in StateChangingEntries
            /\ (state' = "Configuration" => state = "Login")
            /\ (state' = "Play" => state = "Configuration")]_vars

\* C1 witness: the three handlers ran one after the other and the connection
\* has arrived in Play
C1_Witness ==
    /\ state = "Play"
    /\ Handled("AcknowledgeFinishConfigurationPacket", "Configuration")
    /\ log.id = 3

----------------------------------------------------------------------------
(* C2 *)

\* C2: after a Handshake packet (id 0) is handled in state Handshake with
\* next_state Status or Login, the connection state is that state and nothing
\* was handed to the socket.
C2_HandshakeEntersStatusOrLogin ==
    (Handled("HandshakePacket", "Handshake") /\ log.id = 0
        /\ log.packet.next_state \in {"Status", "Login"})
    => (state = log.packet.next_state /\ sent = <<>>)

\* C2 witness: the handshake of a client that asks for Login was handled
C2_Witness ==
    /\ rx = HandshakeFrame(2)
    /\ Handled("HandshakePacket", "Handshake")
    /\ log.packet.next_state = "Login"
    /\ state = "Login"
    /\ sent = <<>>

----------------------------------------------------------------------------
(* C3 *)

\* C3: a Handshake with next_state Transfer leaves the connection in Login,
\* and a LoginStart (id 0) read in the state the handshake left is answered
\* with one LoginSuccess frame (id 2).
C3_TransferTreatedAsLogin ==
    /\ (Handled("HandshakePacket", "Handshake") /\ log.packet.next_state = "Transfer")
       => state = "Login"
    /\ \A u \in Usernames, id \in Uuids :
          (pc = "reading" /\ rx = LoginStartFrame(u, id) /\ log.state = "Transfer")
          => (Len(SentFrames) = 1 /\ FrameId(SentFrames[1]) = 2)

----------------------------------------------------------------------------
(* C4 *)

\* The registry ids of the burst, in the order the protocol indexes them
RegistryOrder ==
    << StrRegBiome, StrRegChatType, StrRegTrimPattern, StrRegTrimMaterial,
       StrRegWolfVariant, StrRegDimensionType, StrRegDamageType, StrRegBannerPattern >>

\* the registry id a RegistryData body carries after its packet id
FrameRegistryId(body) ==
    IF body = <<>> THEN <<>> ELSE ReadString(NewBuf(Tail(body)), "release").val

\* C4: after LoginAcknowledged (id 3) is handled in state Login the state is
\* Configuration and the bytes written before the next read are exactly nine
\* frames: eight RegistryData frames (id 7) for worldgen/biome, chat_type,
\* trim_pattern, trim_material, wolf_variant, dimension_type, damage_type and
\* banner_pattern in this order, then one FinishConfiguration frame (id 3).
C4_RegistryBurstIsNineFrames ==
    (Handled("LoginAcknowledgedPacket", "Login") /\ log.id = 3 /\ pc = "reading")
    => /\ state = "Configuration"
       /\ Len(SentFrames) = 9
       /\ \A k \in 1..8 :
             /\ FrameId(SentFrames[k]) = 7
             /\ FrameRegistryId(SentFrames[k]) = RegistryOrder[k]
       /\ SentFrames[9] = <<3>>

----------------------------------------------------------------------------
(* C5 *)

\* The body of the LoginPlay frame the claim describes: id 0x2B, the fields
\* of the handler in declaration order, has_death_location false and nothing
\* for death_dimension_name and death_location
ExpectedLoginPlayBody ==
    <<43>> \o <<0, 0, 0, 1>> \o <<0>>
        \o <<1, 19>> \o StrOverworld
        \o <<20, 12, 12>> \o <<0, 0, 0>>
        \o <<0>> \o <<19>> \o StrOverworld
        \o <<0, 0, 0, 0, 0, 0, 0, 0>>
        \o <<0, 255>> \o <<0, 0>>
        \o <<0>>
        \o <<0>> \o <<0>>

\* The body of the GameEvent frame: id 0x22, event 13, value 0.0 as f32
ExpectedGameEventBody == <<34, 13, 0, 0, 0, 0>>

\* C5: after AcknowledgeFinishConfiguration (id 3) is handled in state
\* Configuration the state is Play and the bytes written are exactly two
\* frames, LoginPlay and then GameEvent, as the claim describes them.
C5_FinishConfigurationEntersPlay ==
    (Handled("AcknowledgeFinishConfigurationPacket", "Configuration")
        /\ log.id = 3 /\ pc = "reading")
    => /\ state = "Play"
       /\ SentFrames = <<ExpectedLoginPlayBody, ExpectedGameEventBody>>

\* C5 witness: the two frames were written and the connection is in Play
C5_Witness ==
    /\ Handled("AcknowledgeFinishConfigurationPacket", "Configuration")
    /\ pc = "reading"
    /\ rx = <<1, 3>>
    /\ state = "Play"
    /\ Len(sent) = 2
    /\ sent[2] = <<6, 34, 13, 0, 0, 0, 0>>

----------------------------------------------------------------------------
(* C6 *)

\* C6: after LoginStart (id 0) is handled in state Login the bytes written
\* are exactly one LoginSuccess frame (id 2) with the uuid and the username
\* of the LoginStart, no property and strict_error_handling false, and the
\* state is still Login.
C6_LoginStartAnsweredWithLoginSuccess ==
    /\ (Handled("LoginStartPacket", "Login") /\ log.id = 0 /\ pc = "reading")
       => /\ state = "Login"
          /\ SentFrames = << <<2>> \o log.packet.uuid
                                  \o VarIntToNetwork(Len(log.packet.username))
                                  \o log.packet.username \o <<0>> \o <<0>> >>
    /\ \A u \in Usernames, id \in Uuids :
          (pc = "reading" /\ log.state = "Login" /\ rx = LoginStartFrame(u, id))
          => sent = << <<Len(u) + 20, 2>> \o id \o <<Len(u)>> \o u \o <<0, 0>> >>

\* C6 witness: "alice" with a non-zero uuid logged in and got her LoginSuccess
C6_Witness ==
    /\ Handled("LoginStartPacket", "Login")
    /\ pc = "reading"
    /\ rx = LoginStartFrame(StrAlice, [i \in 1..16 |-> 16 * i - 1])
    /\ log.packet.username = StrAlice
    /\ state = "Login"
    /\ Len(sent) = 1
    /\ sent[1][2] = 2

----------------------------------------------------------------------------
(* C7 *)

\* Reading a JSON text: the quotes that open or close a string (a quote after
\* a backslash is part of the string)
JsonQuotes(j) == {i \in 1..Len(j) : j[i] = 34 /\ (i = 1 \/ j[i - 1] # 92)}

\* position i lies inside a string (or is its closing quote)
JsonInString(j, i) == Cardinality({q \in JsonQuotes(j) : q < i}) % 2 = 1

\* how many objects are open at position i
JsonDepth(j, i) ==
    Cardinality({k \in 1..(i - 1) : j[k] = 123 /\ ~JsonInString(j, k)})
        - Cardinality({k \in 1..(i - 1) : j[k] = 125 /\ ~JsonInString(j, k)})

\* the quote that closes the string opened at q
JsonClose(j, q) ==
    CHOOSE c \in JsonQuotes(j) :
        c > q /\ \A d \in JsonQuotes(j) : d > q => c <= d

\* The keys of the top-level object: the strings of depth 1 that a colon follows
JsonTopLevelKeys(j) ==
    { SubSeq(j, q + 1, JsonClose(j, q) - 1) :
        q \in { o \in JsonQuotes(j) :
                  /\ ~JsonInString(j, o)
                  /\ JsonDepth(j, o) = 1
                  /\ JsonClose(j, o) < Len(j)
                  /\ j[JsonClose(j, o) + 1] = 58 } }

\* the string a StatusResponse body carries after its packet id, and what
\* is left of the body after it
FrameString(body) == ReadString(NewBuf(Tail(body)), "release")

\* C7: after StatusRequest (id 0) is handled in state Status the bytes written
\* are exactly one frame with id 0 whose payload is one VarInt-prefixed string,
\* a JSON object with the top-level keys players, version and description; the
\* state is still Status.
C7_StatusRequestAnsweredWithJson ==
    (Handled("StatusRequestPacket", "Status") /\ log.id = 0 /\ pc = "reading")
    => /\ state = "Status"
       /\ Len(SentFrames) = 1
       /\ FrameId(SentFrames[1]) = 0
       /\ ~FrameString(SentFrames[1]).panic
       /\ GetRest(FrameString(SentFrames[1]).buf) = <<>>
       /\ Len(FrameString(SentFrames[1]).val) = Len(SentFrames[1]) - 2
       /\ Head(FrameString(SentFrames[1]).val) = 123
       /\ FrameString(SentFrames[1]).val[Len(FrameString(SentFrames[1]).val)] = 125
       /\ JsonTopLevelKeys(FrameString(SentFrames[1]).val)
              = {StrPlayers, StrVersion, StrDescription}

\* C7 witness: a client in Status sent the bare StatusRequest frame and one
\* buffer was written back
C7_Witness ==
    /\ Handled("StatusRequestPacket", "Status")
    /\ pc = "reading"
    /\ rx = <<1, 0>>
    /\ state = "Status"
    /\ Len(sent) = 1
    /\ Len(sent[1]) > 100

----------------------------------------------------------------------------
(* C8 *)

\* The Serverbound entries of the packet table, as (state, id)
ServerboundEntries ==
    { <<"Handshake", 0>>, <<"Status", 0>>, <<"Status", 1>>, <<"Login", 0>>,
      <<"Login", 3>>, <<"Configuration", 2>>, <<"Configuration", 3>> }

\* C8: a turn of the loop that reads a packet whose (state, id) is no
\* Serverbound entry of the table leaves the state as it is, writes nothing,
\* and the task goes on to the next read.
C8_UnknownPacketsAreDiscarded ==
    [][(nreads' = nreads + 1 /\ ~HandledPacket(rx', build).panic
          /\ <<state, HandledPacket(rx', build).packet_id>> \notin ServerboundEntries)
       => (state' = state /\ sent' = <<>> /\ pc' = "reading"
             /\ log'.line = "Unknown")]_vars

\* C8 witness: a packet read in Play was discarded and the loop reads on
C8_Witness ==
    /\ state = "Play"
    /\ log.line = "Unknown"
    /\ log.state = "Play"
    /\ pc = "reading"
    /\ sent = <<>>
    /\ nreads = 4

----------------------------------------------------------------------------
(* C9 *)

\* C9: a turn that reads, in state Handshake, a Handshake packet whose
\* next_state is sent as Handshake (0), Configuration (4), Play (5) or an
\* unknown id (6, -1) handles it without a panic, leaves the state Handshake,
\* writes nothing, and the task goes on to the next read; an unknown id
\* decodes to Handshake.
C9_HandshakeToOtherStatesIgnored ==
    [][(state = "Handshake" /\ nreads' = nreads + 1
          /\ rx' \in {HandshakeFrame(n) : n \in {0, 4, 5, 6, -1}})
       => /\ state' = "Handshake"
          /\ sent' = <<>>
          /\ pc' = "reading"
          /\ log'.line = "Handling"
          /\ log'.packet.name = "HandshakePacket"
          /\ log'.packet.next_state \in {"Handshake", "Configuration", "Play"}
          /\ (rx' \in {HandshakeFrame(6), HandshakeFrame(-1)}
                => log'.packet.next_state = "Handshake")]_vars

\* C9 witness: a handshake that asks for Play was handled and the connection
\* read the next packet in Handshake
C9_Witness ==
    /\ rx = HandshakeFrame(5)
    /\ Handled("HandshakePacket", "Handshake")
    /\ log.packet.next_state = "Play"
    /\ state = "Handshake"
    /\ pc = "reading"
    /\ sent = <<>>
    /\ nreads >= 2

----------------------------------------------------------------------------
(* C10 *)

\* the VarInt at the head of a buffer, and the bytes after it
OuterLength(f) == ReadVarInt(NewBuf(f), "release")

\* C10: every buffer send_packet hands to the socket is VarInt(len(P))
\* followed by P: the length at its head is the number of bytes that follow.
C10_SentBufferIsLengthThenPacket ==
    \A i \in 1..Len(sent) :
        /\ sent[i] # <<>>
        /\ OuterLength(sent[i]).val = Len(GetRest(OuterLength(sent[i]).buf))

----------------------------------------------------------------------------
(* C11 *)

\* C11: a packet on the inbound path is the VarInt length L and exactly the L
\* bytes after it, and every complete frame of one socket read is dispatched
\* in arrival order.  When the first read of a connection returns a Handshake
\* to Status immediately followed by a StatusRequest, the turn ends with both
\* handled: the state is Status, the last packet handled is the StatusRequest
\* read in Status, and one StatusResponse frame (id 0) was written.
C11_EveryFrameOfOneReadIsDispatched ==
    (nreads = 1 /\ rx = TwoFrames /\ pc = "reading") =>
        /\ state = "Status"
        /\ Handled("StatusRequestPacket", "Status")
        /\ Len(SentFrames) = 1
        /\ FrameId(SentFrames[1]) = 0

----------------------------------------------------------------------------
(* C12 *)

\* C12: a frame that arrives in two socket reads is buffered and dispatched
\* once, after its last byte arrived.  The read that returns only the first
\* eight bytes of a Handshake to Login dispatches nothing (no line is printed,
\* the state is kept, nothing is written, the task reads again), and the read
\* that returns the remaining bytes handles the Handshake: the state is Login.
C12_SplitFrameIsDispatchedOnceWhenComplete ==
    [][/\ (nreads = 0 /\ nreads' = 1 /\ rx' = SplitHead) =>
              /\ log' = log
              /\ state' = state
              /\ sent' = <<>>
              /\ pc' = "reading"
       /\ (nreads = 1 /\ nreads' = 2 /\ rx = SplitHead /\ rx' = SplitTail) =>
              /\ state' = "Login"
              /\ log'.line = "Handling"
              /\ log'.packet.name = "HandshakePacket"]_vars

----------------------------------------------------------------------------
(* C13 *)

\* the packet ids of the frames a Serverbound packet is answered with, in order
ExpectedResponseIds(name) ==
    CASE name = "StatusRequestPacket" -> <<0>>
      [] name = "PingRequestPacket" -> <<1>>
      [] name = "LoginStartPacket" -> <<2>>
      [] name = "LoginAcknowledgedPacket" -> <<7, 7, 7, 7, 7, 7, 7, 7, 3>>
      [] name = "AcknowledgeFinishConfigurationPacket" -> <<43, 34>>
      [] OTHER -> <<>>

\* the packet ids of the buffers of `bufs`, each read after its length prefix
SentIds(bufs) ==
    [i \in 1..Len(bufs) |-> FrameId(GetRest(OuterLength(bufs[i]).buf))]

\* C13: packet handling on one connection is strictly sequential.  A socket
\* read is issued only by a task that is at the read, and when the turn that
\* follows it is back at the read, every frame of the handler of the packet it
\* read (the whole registry burst, LoginPlay and GameEvent) has been handed to
\* the socket, in order, and nothing of any other packet: the socket receives
\* the responses in the order of the requests.
C13_HandlerCompletesBeforeNextRead ==
    [][nreads' # nreads =>
          /\ pc = "reading"
          /\ (pc' = "reading" /\ log'.line = "Handling") =>
                 SentIds(sent') = ExpectedResponseIds(log'.packet.name)
          /\ (pc' = "reading" /\ log'.line = "Unknown") => sent' = <<>>]_vars

\* C13 witness: the task is back at the read after LoginAcknowledged and the
\* nine buffers of the burst were all written in that turn
C13_Witness ==
    /\ pc = "reading"
    /\ Handled("LoginAcknowledgedPacket", "Login")
    /\ SentIds(sent) = ExpectedResponseIds("LoginAcknowledgedPacket")
    /\ nreads >= 2

----------------------------------------------------------------------------
(* C14 *)

\* C14: the acceptor serves each accepted connection as an independent task.
\* A client whose connection waits in the listener's queue is accepted (and its
\* packets can then be handled) whatever the clients accepted before it do,
\* an open and silent connection included, as long as the acceptor runs.
C14_QueuedClientIsAcceptedWhileAnotherIsOpen ==
    \A c \in Clients :
        (conn[c] = "queued" /\ srv_pc # "panicked")
            ~> (conn[c] # "queued" \/ srv_pc = "panicked")

----------------------------------------------------------------------------
(* C15 *)

\* C15: a fatal error on one connection (bytes whose decoding panics, a socket
\* error) ends that connection only.  The step in which a connection dies
\* leaves the acceptor running: it has not panicked and is at accept() or
\* serving, so later connections are still accepted.
C15_ConnectionErrorLeavesAcceptorRunning ==
    [][\A c \in Clients :
          (conn[c] # "died" /\ conn'[c] = "died") => srv_pc' # "panicked"]_vars

----------------------------------------------------------------------------
(* C16 *)

\* the VarInt at the head of `bytes` is longer than five bytes: the first
\* five all carry the continuation bit
OverLongVarInt(bytes) ==
    /\ Len(bytes) >= 5
    /\ \A i \in 1..5 : bytes[i] >= 128

\* C16: a VarInt encoded in more than five bytes is a fatal decode error.  When
\* the bytes a socket read returned start with such a VarInt (the packet
\* length), the task has panicked: no value was decoded from it and nothing
\* was dispatched.
C16_OverLongVarIntIsFatal ==
    (nreads > 0 /\ OverLongVarInt(rx)) => pc = "panicked"

----------------------------------------------------------------------------
(* C17 *)

\* Whether decoding the fields of packet `name` from `data` asks for more
\* bytes than data holds.  The decoder reads zeros where the buffer has
\* ended, so it decodes data followed by a zero byte to the same values, and
\* its cursor is then past the end of data exactly when a read ran short.
ReadsPastEnd(name, data, bld) ==
    FieldsFromNetwork(DecodeStart(data \o <<0>>), PacketFields(name), bld).buf.pos
        > Len(data)

\* C17: decoding a value from a buffer that holds fewer bytes than the value
\* needs is fatal for the connection.  Whenever a packet was decoded and
\* handled, every byte its fields were decoded from was in the bytes the
\* socket read returned.
C17_ShortBufferIsFatal ==
    (nreads > 0 /\ pc # "panicked" /\ log.line = "Handling") =>
        ~ReadsPastEnd(log.packet.name, HandledPacket(rx, build).packet_data, build)

----------------------------------------------------------------------------
(* C18 *)

\* C18: VarInt and VarLong round-trip.  Reading back the bytes written for a
\* value returns that value without a panic and consumes exactly those bytes:
\* the cursor stands at their end and what followed them is still unread.
\* This holds for negative values and for MIN, -1, 0, 1 and MAX, and -1 as a
\* VarInt is written as ff ff ff ff 0f.
C18_VarNumRoundTrips ==
    /\ (cpc = "read" /\ cin.type \in {"VarInt", "VarLong"}) =>
           /\ ~cout.panic
           /\ cout.val = cin.v
           /\ cout.buf.pos = Len(cbuf.vec)
           /\ GetRest(cout.buf) = cin.tail
    /\ (cpc # "start" /\ cin.type = "VarInt") =>
           (cin.v = -1 => cbuf.vec = <<255, 255, 255, 255, 15>>)

\* C18 witness: ff ff ff ff 0f, followed by another byte, was read back as -1
C18_Witness ==
    /\ cpc = "read"
    /\ cin.type = "VarInt"
    /\ cin.v = -1
    /\ cin.tail = <<255>>
    /\ cbuf.vec = <<255, 255, 255, 255, 15>>
    /\ cout.val = -1

----------------------------------------------------------------------------
(* C19 *)

\* the length table of the VarInt encoding
VarIntLengthTable(v) ==
    IF v < 0 THEN 5
    ELSE IF v <= 127 THEN 1
    ELSE IF v <= 16383 THEN 2
    ELSE IF v <= 2097151 THEN 3
    ELSE IF v <= 268435455 THEN 4
    ELSE 5

\* C19: for every i32 v the number of bytes VarInt::to_network writes equals
\* VarInt::get_size_in_bytes and the length table: one byte up to 127 (zero is
\* the single byte 00), two up to 16383, three up to 2097151, four up to
\* 268435455, five above, and five for every negative value.
C19_VarIntSizeMatchesTable ==
    cpc = "sized" =>
        /\ cout.val = Len(cbuf.vec)
        /\ cout.val = VarIntLengthTable(cin.v)
        /\ (cin.v = 0 => cbuf.vec = <<0>>)

\* C19 witness: a negative value was written in five bytes and sized as five
C19_Witness ==
    /\ cpc = "sized"
    /\ cin.v < -1
    /\ Len(cbuf.vec) = 5
    /\ cout.val = 5

----------------------------------------------------------------------------
(* C20 *)

\* ((x & 0x3FFFFFF) << 38) | ((z & 0x3FFFFFF) << 12) | (y & 0xFFF), bit by
\* bit: y in bits 0..11, z in bits 12..37, x in bits 38..63
ExpectedPacked(p) ==
    {k \in 0..11 : k \in p.y}
        \cup {k \in 12..37 : (k - 12) \in p.z}
        \cup {k \in 38..63 : (k - 38) \in p.x}

\* C20: Position round-trips.  For x and z in [-33554432, 33554431] and y in
\* [-2048, 2047] the eight bytes written are the big-endian i64 with y in its
\* low 12 bits, z in the next 26 and x in the top 26, and reading them back
\* returns the same x, y and z and leaves what followed unread.
C20_PositionRoundTrips ==
    /\ (cpc # "start" /\ cin.type = "Position") =>
           cbuf.vec = I64Be(ExpectedPacked(cin.v))
    /\ (cpc = "read" /\ cin.type = "Position") =>
           /\ ~cout.panic
           /\ cout.val = cin.v
           /\ GetRest(cout.buf) = cin.tail

\* C20 witness: the position with the least x, the greatest y and z = -1 was
\* read back unchanged
C20_Witness ==
    /\ cpc = "read"
    /\ cin.type = "Position"
    /\ cin.v = [x |-> I64OfInt(-33554432), y |-> I64OfInt(2047), z |-> I64OfInt(-1)]
    /\ cout.val = cin.v

----------------------------------------------------------------------------
(* The composite values of protocol-network: Identifier (identifier.rs),     *)
(* Property (packet/login.rs) and the optional fields of LoginPlayPacket.    *)
(* A string is the sequence of its UTF-8 bytes; those used here are ASCII.   *)

\* "minecraft"
StrMinecraft == <<109, 105, 110, 101, 99, 114, 97, 102, 116>>

\* The class [a-z0-9.-_] of NAMESPACE_REGEX as the regex crate reads it: a to
\* z, 0 to 9, and ".-_", which between brackets is the range from '.' (0x2E)
\* to '_' (0x5F).
NamespaceClass == (97..122) \cup (48..57) \cup (46..95)

\* The class [a-z0-9.-_/] of PATH_REGEX: the same, and '/'.
PathClass == (97..122) \cup (48..57) \cup (46..95) \cup {47}

\* Regex::is_match of ^[class]+ : the pattern is anchored at the start only,
\* so it matches when some non-empty prefix of s lies within the class.
IsMatch(class, s) == \E n \in 1..Len(s) : \A i \in 1..n : s[i] \in class

\* Identifier::new: None is <<>>, Some(x) is <<x>>
IdentifierNew(namespace, path) ==
    IF ~IsMatch(NamespaceClass, namespace) \/ ~IsMatch(PathClass, path)
    THEN <<>>
    ELSE << [namespace |-> namespace, path |-> path] >>

\* str::find of the byte c from index i on (1-based), 0 when it is not there
RECURSIVE IndexOf(_, _, _)
IndexOf(s, c, i) ==
    IF i > Len(s) THEN 0 ELSE IF s[i] = c THEN i ELSE IndexOf(s, c, i + 1)

\* str::split(c) collected into a vector
RECURSIVE Split(_, _)
Split(s, c) ==
    IF IndexOf(s, c, 1) = 0
    THEN <<s>>
    ELSE <<SubSeq(s, 1, IndexOf(s, c, 1) - 1)>>
            \o Split(SubSeq(s, IndexOf(s, c, 1) + 1, Len(s)), c)

\* A faulty variant of IdentifierFrom: no default namespace
IdentifierFromNoDefault(value) ==
    IF IndexOf(value, 58, 1) # 0
    THEN [namespace |-> Split(value, 58)[1], path |-> Split(value, 58)[2]]
    ELSE [namespace |-> <<>>, path |-> value]

\* impl From<&str> for Identifier: parts[0] and parts[1] of split(":") when
\* the string contains ':', else "minecraft" and the string
IdentifierFrom(value) ==
    IF IndexOf(value, 58, 1) # 0
    THEN [namespace |-> Split(value, 58)[1], path |-> Split(value, 58)[2]]
    ELSE [namespace |-> StrMinecraft, path |-> value]

\* impl Display for Identifier: "{}:{}"
IdentifierDisplay(id) == id.namespace \o <<58>> \o id.path

\* Identifier::to_network: write_string(format!("{}", self))
WriteIdentifier(buf, id) == WriteString(buf, IdentifierDisplay(id))

\* bool::from_network: one byte read into a zeroed array, != 0
ReadBool(buf) ==
    [panic |-> FALSE, val |-> BufRead(buf, 1).bytes[1] # 0, buf |-> BufRead(buf, 1).buf]

\* the signature of Property::from_network: read when signed, else None
ReadSignature(signed, bld) ==
    IF signed.val
    THEN [panic |-> ReadString(signed.buf, bld).panic,
          val   |-> <<ReadString(signed.buf, bld).val>>,
          buf   |-> ReadString(signed.buf, bld).buf]
    ELSE [panic |-> FALSE, val |-> <<>>, buf |-> signed.buf]

\* the Property built from its four fields as they were read
PropertyRead(name, value, signed, signature) ==
    [panic |-> name.panic \/ value.panic \/ signature.panic,
     val   |-> [name |-> name.val, value |-> value.val, signed |-> signed.val,
                signature |-> signature.val],
     buf   |-> signature.buf]

ReadPropertyAfterValue(name, value, signed, bld) ==
    PropertyRead(name, value, signed, ReadSignature(signed, bld))

ReadPropertyAfterName(name, value, bld) ==
    ReadPropertyAfterValue(name, value, ReadBool(value.buf), bld)

\* Property::from_network: name, value, signed, then the signature
ReadProperty(buf, bld) ==
    ReadPropertyAfterName(ReadString(buf, bld),
                          ReadString(ReadString(buf, bld).buf, bld), bld)

\* The values given to Identifier::new ...
NamespaceInputs ==
    { <<>>,                                  \* ""
      <<97>>,                                \* "a"
      <<97, 46, 98, 45, 99, 95, 57>>,        \* "a.b-c_9"
      <<45, 97>>,                            \* "-a"
      <<65>>,                                \* "A"
      <<97, 66>>,                            \* "aB"
      <<97, 32, 98>>,                        \* "a b"
      <<32, 97>>,                            \* " a"
      <<97, 58, 98>>,                        \* "a:b"
      <<97, 47, 98>>,                        \* "a/b"
      <<47, 97>> }                           \* "/a"

PathInputs ==
    { <<>>,                                  \* ""
      <<120>>,                               \* "x"
      <<120, 47, 121, 45, 122, 95, 49, 46, 119>>,  \* "x/y-z_1.w"
      <<45, 120>>,                           \* "-x"
      <<88>>,                                \* "X"
      <<120, 32, 89>>,                       \* "x Y"
      <<120, 58, 121>>,                      \* "x:y"
      <<32, 120>> }                          \* " x"

\* ... to Identifier::from ...
FromInputs ==
    { <<>>,                                  \* ""
      <<115, 116, 111, 110, 101>>,           \* "stone"
      <<110, 115, 58, 115, 116, 111, 110, 101>>,  \* "ns:stone"
      <<58, 120>>,                           \* ":x"
      <<110, 115, 58>>,                      \* "ns:"
      <<58>>,                                \* ":"
      <<97, 58, 98, 58, 99>> }               \* "a:b:c"

\* ... the Property values, every combination of signed and signature ...
PropertyInputs ==
    {[name |-> <<97>>, value |-> v, signed |-> s, signature |-> g] :
        v \in {<<>>, <<98>>}, s \in BOOLEAN, g \in {<<>>, <<<<>>>>, <<<<115>>>>}}

\* ... what may follow a Property on the wire: nothing, or the string "t" ...
PropertyTails == {<<>>, <<1, 116>>}

\* T::to_network of an element of a Vec<T>, by the type T
ElementToNetwork(buf, type, value) ==
    CASE type = "String" -> WriteString(buf, value)
      [] type = "VarInt" -> BufWrite(buf, VarIntToNetwork(value))

\* for value in self { value.to_network(buf) }
RECURSIVE VecWriteEach(_, _, _)
VecWriteEach(buf, type, values) ==
    IF values = <<>>
    THEN buf
    ELSE VecWriteEach(ElementToNetwork(buf, type, Head(values)), type, Tail(values))

\* A faulty variant of VecToNetwork: the elements without their count
VecToNetworkNoCount(buf, type, values) == VecWriteEach(buf, type, values)

\* Vec<T>::to_network: VarInt::from(self.len() as i32), then each value
VecToNetwork(buf, type, values) ==
    VecWriteEach(BufWrite(buf, VarIntToNetwork(Len(values))), type, values)

\* for _ in 0..length { values.push(T::from_network(buf)) } once the length is
\* read; a length below zero is a usize beyond isize::MAX, on which
\* Vec::with_capacity panics
VecOfLength(length, type, bld) ==
    IF length.panic \/ length.val < 0
    THEN [panic |-> TRUE, val |-> <<>>, buf |-> length.buf]
    ELSE [panic |-> FieldsFromNetwork([panic |-> FALSE, vals |-> <<>>, buf |-> length.buf],
                                      [i \in 1..length.val |-> type], bld).panic,
          val |-> FieldsFromNetwork([panic |-> FALSE, vals |-> <<>>, buf |-> length.buf],
                                    [i \in 1..length.val |-> type], bld).vals,
          buf |-> FieldsFromNetwork([panic |-> FALSE, vals |-> <<>>, buf |-> length.buf],
                                    [i \in 1..length.val |-> type], bld).buf]

\* Vec<T>::from_network
VecFromNetwork(buf, type, bld) == VecOfLength(ReadVarInt(buf, bld), type, bld)

\* The vectors written and read back: of strings of several lengths, and of
\* VarInts of one, two and five bytes ...
VecStringInputs ==
    {<<>>, <<StrAlice>>, <<<<97, 98>>, <<>>>>, <<<<>>, <<97>>, <<98, 111>>>>}

VecVarIntInputs == {<<>>, <<0>>, <<300, -1>>, <<2, 1, 0>>}

\* ... and the bytes that follow them in the buffer
VecTails == {<<>>, <<1, 116>>, <<3>>}

\* ... and the LoginPlayPacket values: the one the server sends with every
\* combination of the guard and the two optional fields
DeathPosition == [x |-> I64OfInt(1), y |-> I64OfInt(64), z |-> I64OfInt(-1)]

LoginPlayInputs ==
    {[LoginPlayPacket EXCEPT !.has_death_location = g,
                             !.death_dimension_name = d,
                             !.death_location = l] :
        g \in BOOLEAN, d \in {<<>>, <<StrOverworld>>}, l \in {<<>>, <<DeathPosition>>}}

ValueInit ==
    /\ ClientNew
    /\ build \in {"debug", "release"}
    /\ ServerNew
    /\ CoreNew
    /\ \/ cin \in {[type |-> "IdentifierNew", namespace |-> n, path |-> p] :
                        n \in NamespaceInputs, p \in PathInputs}
       \/ cin \in {[type |-> "IdentifierFrom", v |-> s] : s \in FromInputs}
       \/ cin \in {[type |-> "Property", v |-> p, tail |-> t] :
                        p \in PropertyInputs, t \in PropertyTails}
       \/ cin \in {[type |-> "LoginPlay", v |-> p] : p \in LoginPlayInputs}
       \/ cin \in {[type |-> "Vec", elem |-> "String", v |-> v, tail |-> t] :
                        v \in VecStringInputs, t \in VecTails}
       \/ cin \in {[type |-> "Vec", elem |-> "VarInt", v |-> v, tail |-> t] :
                        v \in VecVarIntInputs, t \in VecTails}
    /\ cpc = "start"
    /\ cbuf = NewEmpty
    /\ cout = [panic |-> FALSE, val |-> 0, buf |-> NewEmpty]

\* Identifier::new(namespace, path)
CallIdentifierNew ==
    /\ cpc = "start"
    /\ cin.type = "IdentifierNew"
    /\ cout' = [panic |-> FALSE, val |-> IdentifierNew(cin.namespace, cin.path),
                buf |-> NewEmpty]
    /\ cpc' = "returned"
    /\ UNCHANGED <<cin, cbuf, connVars, build, serverVars, coreVars>>

\* Identifier::from(value)
CallIdentifierFrom ==
    /\ cpc = "start"
    /\ cin.type = "IdentifierFrom"
    /\ cout' = [panic |-> FALSE, val |-> IdentifierFrom(cin.v), buf |-> NewEmpty]
    /\ cpc' = "built"
    /\ UNCHANGED <<cin, cbuf, connVars, build, serverVars, coreVars>>

\* buf.write_to(identifier) on ByteBuf::new_empty()
IdentifierToNetwork ==
    /\ cpc = "built"
    /\ cbuf' = WriteIdentifier(NewEmpty, cout.val)
    /\ cpc' = "written"
    /\ UNCHANGED <<cin, cout, connVars, build, serverVars, coreVars>>

\* property.to_network(buf) on ByteBuf::new_empty()
PropertyToNetwork ==
    /\ cpc = "start"
    /\ cin.type = "Property"
    /\ cbuf' = WriteProperty(NewEmpty, cin.v)
    /\ cpc' = "written"
    /\ UNCHANGED <<cin, cout, connVars, build, serverVars, coreVars>>

\* Property::from_network on a ByteBuf::new of the bytes written and what
\* follows them
PropertyFromNetwork ==
    /\ cpc = "written"
    /\ cin.type = "Property"
    /\ cout' = ReadProperty(NewBuf(cbuf.vec \o cin.tail), build)
    /\ cpc' = "read"
    /\ UNCHANGED <<cin, cbuf, connVars, build, serverVars, coreVars>>

\* packet.to_network(buf) of a LoginPlayPacket on ByteBuf::new_empty()
LoginPlayToNetwork ==
    /\ cpc = "start"
    /\ cin.type = "LoginPlay"
    /\ cbuf' = WriteLoginPlay(NewEmpty, cin.v)
    /\ cpc' = "written"
    /\ UNCHANGED <<cin, cout, connVars, build, serverVars, coreVars>>

\* values.to_network(buf) of a Vec<T> on ByteBuf::new_empty()
CallVecToNetwork ==
    /\ cpc = "start"
    /\ cin.type = "Vec"
    /\ cbuf' = VecToNetwork(NewEmpty, cin.elem, cin.v)
    /\ cpc' = "written"
    /\ UNCHANGED <<cin, cout, connVars, build, serverVars, coreVars>>

\* Vec::<T>::from_network on a ByteBuf::new of the bytes written and what
\* follows them
CallVecFromNetwork ==
    /\ cpc = "written"
    /\ cin.type = "Vec"
    /\ cout' = VecFromNetwork(NewBuf(cbuf.vec \o cin.tail), cin.elem, build)
    /\ cpc' = "read"
    /\ UNCHANGED <<cin, cbuf, connVars, build, serverVars, coreVars>>

ValueNext ==
    \/ CallIdentifierNew
    \/ CallIdentifierFrom
    \/ IdentifierToNetwork
    \/ PropertyToNetwork
    \/ PropertyFromNetwork
    \/ LoginPlayToNetwork
    \/ CallVecToNetwork
    \/ CallVecFromNetwork

ValueSpec == ValueInit /\ [][ValueNext]_vars

----------------------------------------------------------------------------
(* Identifier, Property and the optional fields of LoginPlayPacket *)

\* the characters a namespace is made of: a-z, 0-9, '.', '_', '-'
NamespaceChars == (97..122) \cup (48..57) \cup {46, 95, 45}

\* s is not empty and every character of it is in chars
MadeOf(s, chars) == s # <<>> /\ \A i \in 1..Len(s) : s[i] \in chars

\* C21: Identifier::new(namespace, path) returns Some exactly when the whole
\* namespace is a non-empty string over [a-z0-9._-] and the whole path a
\* non-empty string over [a-z0-9._/-]; a component with any other character
\* anywhere (an uppercase letter, ':', a space, '/' in the namespace) gives
\* None.
C21_IdentifierNewChecksWholeComponents ==
    (cin.type = "IdentifierNew" /\ cpc = "returned") =>
        ((cout.val # <<>>) <=>
            (MadeOf(cin.namespace, NamespaceChars)
                /\ MadeOf(cin.path, NamespaceChars \cup {47})))

\* the number of ':' in s
RECURSIVE Colons(_)
Colons(s) == IF s = <<>> THEN 0 ELSE (IF Head(s) = 58 THEN 1 ELSE 0) + Colons(Tail(s))

\* s is ns, ':' and path, neither holding a ':'
IsNsPath(s, ns, path) == s = ns \o <<58>> \o path /\ Colons(ns) = 0 /\ Colons(path) = 0

\* C22: an Identifier built from a string without ':' has namespace
\* "minecraft" and the string as its path; built from "ns:path" it has
\* namespace ns and path path; written to a buffer it is the one string
\* "namespace:path" (a VarInt length and the bytes), nothing else.
C22_IdentifierFromStrDefaultsToMinecraft ==
    (cin.type = "IdentifierFrom" /\ cpc \in {"built", "written"}) =>
        /\ Colons(cin.v) = 0 =>
              cout.val = [namespace |-> StrMinecraft, path |-> cin.v]
        /\ \A k \in 1..Len(cin.v) :
              IsNsPath(cin.v, SubSeq(cin.v, 1, k - 1), SubSeq(cin.v, k + 1, Len(cin.v))) =>
                  cout.val = [namespace |-> SubSeq(cin.v, 1, k - 1),
                              path |-> SubSeq(cin.v, k + 1, Len(cin.v))]
        /\ cpc = "written" =>
              cbuf.vec = <<Len(cout.val.namespace) + 1 + Len(cout.val.path)>>
                            \o cout.val.namespace \o <<58>> \o cout.val.path

\* C22 witness: "stone" was built and written as "minecraft:stone", and so
\* was "ns:stone" as itself
C22_Witness ==
    /\ cin.type = "IdentifierFrom"
    /\ cpc = "written"
    /\ cin.v = <<115, 116, 111, 110, 101>>
    /\ cout.val.namespace = StrMinecraft
    /\ cbuf.vec = <<15>> \o StrMinecraft \o <<58, 115, 116, 111, 110, 101>>

\* C23: the bytes of a Property hold the signature string exactly when signed
\* is true, so that for every Property, whatever signed and signature are,
\* decoding what was written gives the Property back and stops where the
\* bytes written end.
C23_PropertyRoundTrips ==
    (cin.type = "Property" /\ cpc = "read") =>
        /\ ~cout.panic
        /\ cout.val = cin.v
        /\ cout.buf.pos = Len(cbuf.vec)
        /\ Len(cbuf.vec) > 3 + Len(cin.v.name) + Len(cin.v.value) <=> cin.v.signed

\* the bytes WriteLoginPlay puts between has_death_location and
\* portal_cooldown: all but the last two follow a prefix that does not depend
\* on the optional fields
DeathBytes(vec, p) ==
    SubSeq(vec,
           Len(WriteLoginPlay(NewEmpty, [p EXCEPT !.death_dimension_name = <<>>,
                                                 !.death_location = <<>>]).vec) - 1,
           Len(vec) - 2)

\* C24: a LoginPlayPacket is written with the bytes of death_dimension_name
\* and death_location exactly when has_death_location is true, for every
\* combination of the guard and of the two optional fields: nothing between
\* the guard and portal_cooldown when it is false, a string and the eight
\* bytes of a position when it is true.
C24_DeathLocationWrittenIffGuard ==
    (cin.type = "LoginPlay" /\ cpc = "written") =>
        IF cin.v.has_death_location
        THEN Len(DeathBytes(cbuf.vec, cin.v)) >= 9
        ELSE DeathBytes(cbuf.vec, cin.v) = <<>>

----------------------------------------------------------------------------
(* The framing of crates/protocol-buf: its own VarInt (macros.rs, types.rs), *)
(* CompressionData::to_buffer and PacketBuffer::new (compression.rs,         *)
(* buffer.rs).  A PacketBuffer is [packet_length, data_length, packet_id,    *)
(* buffer], the buffer being the Cursor<Vec<u8>> of its NormalBuffer.        *)

\* VarInt::to_network of protocol-buf: seven bits at a time of the u32 image
RECURSIVE BufVarIntToNetwork(_)
BufVarIntToNetwork(v) ==
    IF Shr7(v) # 0
    THEN <<(v % 128) + 128>> \o BufVarIntToNetwork(Shr7(v))
    ELSE <<v % 128>>

\* VarInt::len
RECURSIVE BufVarIntLen(_)
BufVarIntLen(v) == IF Shr7(v) # 0 THEN 1 + BufVarIntLen(Shr7(v)) ELSE 1

\* encode_varint: the same loop on the i32 itself (value >>= 7 is the
\* arithmetic shift).  It is given lengths, which are not negative.
RECURSIVE EncodeVarint(_)
EncodeVarint(value) ==
    IF value \div 128 # 0
    THEN <<(value % 128) + 128>> \o EncodeVarint(value \div 128)
    ELSE <<value % 128>>

\* (x as u32) << s for s < 32
Shl32(bits, s) == {b + s : b \in bits} \cap (0..31)

RECURSIVE BufVarIntLoop(_, _, _, _)
\* One turn of the loop of VarInt::from_network once buffer.get_ref()[position]
\* gave byte: the shift by 7 * size panics in a debug build when it reaches
\* the width of u32 and is masked in a release build; then size is counted
\* and a sixth byte panics ("VarInt too large").
BufVarIntTurn(buf, byte, value, size, bld) ==
    IF (7 * size >= 32 /\ bld = "debug") \/ size + 1 > 5
    THEN [panic |-> TRUE, val |-> 0, buf |-> buf]
    ELSE IF byte < 128
         THEN [panic |-> FALSE,
               val   |-> AsI32(value \cup Shl32(BitsOf(byte % 128), (7 * size) % 32)),
               buf   |-> buf]
         ELSE BufVarIntLoop(buf, value \cup Shl32(BitsOf(byte % 128), (7 * size) % 32),
                            size + 1, bld)

\* The loop: indexing the vector at or past its end panics
BufVarIntLoop(buf, value, size, bld) ==
    IF buf.pos >= Len(buf.vec)
    THEN [panic |-> TRUE, val |-> 0, buf |-> buf]
    ELSE BufVarIntTurn([vec |-> buf.vec, pos |-> buf.pos + 1], buf.vec[buf.pos + 1],
                       value, size, bld)

\* NormalBuffer::read_varint: [panic, val, buf]
BufReadVarInt(buf, bld) == BufVarIntLoop(buf, {}, 0, bld)

\* the sum of bytes[lo..hi] modulo 65521
RECURSIVE ByteSum(_, _, _)
ByteSum(bytes, lo, hi) ==
    IF lo > hi THEN 0
    ELSE IF lo = hi THEN bytes[lo]
    ELSE (ByteSum(bytes, lo, (lo + hi) \div 2)
            + ByteSum(bytes, ((lo + hi) \div 2) + 1, hi)) % 65521

\* the sum over lo..hi of bytes[i] counted once for every byte from i on,
\* modulo 65521
RECURSIVE ByteSumOfSums(_, _, _)
ByteSumOfSums(bytes, lo, hi) ==
    IF lo > hi THEN 0
    ELSE IF lo = hi THEN ((Len(bytes) - lo + 1) * bytes[lo]) % 65521
    ELSE (ByteSumOfSums(bytes, lo, (lo + hi) \div 2)
            + ByteSumOfSums(bytes, ((lo + hi) \div 2) + 1, hi)) % 65521

\* The Adler-32 checksum that ends a zlib stream, big-endian: a is one plus
\* the sum of the bytes and b the sum of the values a took after each byte,
\* both modulo 65521
Adler32A(bytes) == (1 + ByteSum(bytes, 1, Len(bytes))) % 65521

Adler32B(bytes) == (Len(bytes) + ByteSumOfSums(bytes, 1, Len(bytes))) % 65521

Adler32(bytes) ==
    <<Adler32B(bytes) \div 256, Adler32B(bytes) % 256,
      Adler32A(bytes) \div 256, Adler32A(bytes) % 256>>

\* ZlibEncoder::new(Vec::new(), Compression::default()), write_all, finish:
\* a zlib stream of the bytes.  It is written here with the header of the
\* default level (78 9C), one final stored block (01, LEN, NLEN, the bytes)
\* and the checksum; which block types the encoder picks is the library's
\* choice and changes the length of the stream, not what it inflates to.
ZlibEncode(bytes) ==
    <<120, 156, 1,
      Len(bytes) % 256, Len(bytes) \div 256,
      255 - (Len(bytes) % 256), 255 - (Len(bytes) \div 256)>>
        \o bytes \o Adler32(bytes)

\* ZlibCompression::compress, what it appends to the placeholder: when the
\* payload (buffer.get_ref()) is at least threshold long, the data length and
\* the zlib stream of id and payload; else a zero data length, id and payload
ZlibBody(buffer, data) ==
    IF Len(buffer.buffer.vec) >= data.threshold
    THEN EncodeVarint(BufVarIntLen(buffer.packet_id) + Len(buffer.buffer.vec))
            \o ZlibEncode(BufVarIntToNetwork(buffer.packet_id) \o buffer.buffer.vec)
    ELSE EncodeVarint(0) \o BufVarIntToNetwork(buffer.packet_id) \o buffer.buffer.vec

\* result[..packet_length_encoded.len()].copy_from_slice(&packet_length_encoded)
CopyFromSlice(result, encoded) ==
    [i \in 1..Len(result) |-> IF i <= Len(encoded) THEN encoded[i] ELSE result[i]]

\* ZlibCompression::compress: the placeholder encode_varint(0), the body, and
\* the length of what follows the placeholder copied over the first bytes
ZlibCompress(buffer, data) ==
    CopyFromSlice(EncodeVarint(0) \o ZlibBody(buffer, data),
                  EncodeVarint(Len(EncodeVarint(0) \o ZlibBody(buffer, data))
                                  - Len(EncodeVarint(0))))

\* A faulty variant of NormalCompress: only the bytes after the cursor
NormalCompressRest(buffer, data) ==
    SubSeq(buffer.buffer.vec, buffer.buffer.pos + 1, Len(buffer.buffer.vec))

\* NormalCompression::compress: buffer.get_ref().clone()
NormalCompress(buffer, data) == buffer.buffer.vec

\* CompressionData::to_buffer
ToBuffer(buffer, data) ==
    CASE data.compression_type = "None" -> NormalCompress(buffer, data)
      [] data.compression_type = "Zlib" -> ZlibCompress(buffer, data)

\* the PacketBuffer of NormalCompression::decompress from its two reads
NormalPacket(packet_length, packet_id) ==
    [panic |-> packet_length.panic \/ packet_id.panic,
     val   |-> [packet_length |-> packet_length.val, data_length |-> 0,
                packet_id |-> packet_id.val, buffer |-> packet_id.buf]]

NormalDecompressAfterLength(packet_length, bld) ==
    NormalPacket(packet_length, BufReadVarInt(packet_length.buf, bld))

\* NormalCompression::decompress: packet_length, then packet_id, read from a
\* NormalBuffer of the bytes
NormalDecompress(bytes, bld) ==
    NormalDecompressAfterLength(BufReadVarInt(NewBuf(bytes), bld), bld)

\* ZlibCompression::decompress: unimplemented!()
ZlibDecompress(bytes) == [panic |-> TRUE, val |-> 0]

\* CompressionData::grab_from_buffer: Ok of what the compression type gives,
\* [panic, ok, val]
GrabFromBuffer(bytes, data, bld) ==
    CASE data.compression_type = "None" ->
            [panic |-> NormalDecompress(bytes, bld).panic, ok |-> TRUE,
             val |-> NormalDecompress(bytes, bld).val]
      [] data.compression_type = "Zlib" ->
            [panic |-> ZlibDecompress(bytes).panic, ok |-> TRUE,
             val |-> ZlibDecompress(bytes).val]

\* the Option that PacketBuffer::new makes of the result
OptionOfResult(r) == [panic |-> r.panic, val |-> IF r.ok THEN <<r.val>> ELSE <<>>]

\* PacketBuffer::new: Some(data) when grab_from_buffer is Ok, else None
PacketBufferNew(bytes, data, bld) == OptionOfResult(GrabFromBuffer(bytes, data, bld))

\* u32::to_be_bytes, the u32 being the set of its one bits
U32Be(bits) == [j \in 1..4 |-> ByteAt(bits, 4 - j)]

\* u32::from_be_bytes
U32FromBe(bytes) == UNION {{8 * (4 - j) + i : i \in BitsOf(bytes[j])} : j \in 1..4}

\* ToNetwork of protocol-buf (types.rs), by type
BufToNetwork(type, v) ==
    CASE type = "bool" -> <<IF v THEN 1 ELSE 0>>
      [] type = "u8" -> <<v>>
      [] type = "u16" -> U16Be(v)
      [] type = "u32" -> U32Be(v)
      [] type = "u64" -> I64Be(v)
      [] type = "VarInt" -> BufVarIntToNetwork(v)
      [] type = "String" -> BufVarIntToNetwork(Len(v)) \o v

\* u8::from_network: buffer.get_ref()[buffer.position()], which panics at the
\* end of the vector and leaves the position where it was
BufReadByte(buf) ==
    IF buf.pos >= Len(buf.vec)
    THEN [panic |-> TRUE, val |-> 0, buf |-> buf]
    ELSE [panic |-> FALSE, val |-> buf.vec[buf.pos + 1], buf |-> buf]

\* handle_primitive_read!: read_exact of n bytes, expect("Failed to read bytes")
BufReadExact(buf, n) ==
    IF buf.pos + n > Len(buf.vec)
    THEN [panic |-> TRUE, val |-> Zeros(n), buf |-> buf]
    ELSE [panic |-> FALSE, val |-> SubSeq(buf.vec, buf.pos + 1, buf.pos + n),
          buf |-> [vec |-> buf.vec, pos |-> buf.pos + n]]

\* String::from_network once the length was read: the length as usize (a
\* negative one is larger than any slice), bytes[..length] of what is left,
\* from_utf8().unwrap(), and the position moved past the bytes
BufStringOfLength(l) ==
    IF l.panic \/ l.val < 0 \/ l.buf.pos + l.val > Len(l.buf.vec)
    THEN [panic |-> TRUE, val |-> <<>>, buf |-> l.buf]
    ELSE [panic |-> ~IsUtf8(SubSeq(l.buf.vec, l.buf.pos + 1, l.buf.pos + l.val)),
          val   |-> SubSeq(l.buf.vec, l.buf.pos + 1, l.buf.pos + l.val),
          buf   |-> [vec |-> l.buf.vec, pos |-> l.buf.pos + l.val]]

\* Buffer::read::<T> on a NormalBuffer, by type: [panic, val, buf]
BufFromNetwork(buf, type, bld) ==
    CASE type = "bool" ->
            [panic |-> BufReadByte(buf).panic, val |-> BufReadByte(buf).val # 0,
             buf |-> BufReadByte(buf).buf]
      [] type = "u8" -> BufReadByte(buf)
      [] type = "u16" ->
            [panic |-> BufReadExact(buf, 2).panic,
             val |-> U16FromBe(BufReadExact(buf, 2).val), buf |-> BufReadExact(buf, 2).buf]
      [] type = "u32" ->
            [panic |-> BufReadExact(buf, 4).panic,
             val |-> U32FromBe(BufReadExact(buf, 4).val), buf |-> BufReadExact(buf, 4).buf]
      [] type = "u64" ->
            [panic |-> BufReadExact(buf, 8).panic,
             val |-> I64FromBe(BufReadExact(buf, 8).val), buf |-> BufReadExact(buf, 8).buf]
      [] type = "VarInt" -> BufReadVarInt(buf, bld)
      [] type = "String" -> BufStringOfLength(BufReadVarInt(buf, bld))

\* Buffer::write of every value in turn: write_all at the cursor
RECURSIVE BufWriteEach(_, _)
BufWriteEach(buf, values) ==
    IF values = <<>>
    THEN buf
    ELSE BufWriteEach(BufWrite(buf, BufToNetwork(Head(values).type, Head(values).v)),
                      Tail(values))

\* The packets given to to_buffer: the payloads ...
Payload(n) == [i \in 1..n |-> i % 256]

PayloadInputs == {Payload(n) : n \in {0, 1, 2, 10, 125, 126, 127}}

\* ... the packet ids, of one byte and of two ...
PacketIdInputs == {0, 43, 200}

\* the thresholds set_compression_threshold is called with
CoreThresholds == {-1, 25, 256}

\* CompressionData::new
CompressionDataNew(threshold, compression_type) ==
    [threshold |-> threshold, compression_type |-> compression_type]

\* ... the settings of the connection ...
CompressionInputs ==
    {[threshold |-> t, compression_type |-> c] :
        t \in {-1, 0, 3, 256}, c \in {"None", "Zlib"}}

\* ... and the bytes given to PacketBuffer::new: nothing, a length cut short,
\* a length alone, frames, an id cut short, a length and an id of six bytes,
\* a length of five
FrameInputs ==
    { <<>>,
      <<128>>,
      <<1>>,
      <<1, 0>>,
      <<3, 0, 1, 2>>,
      <<2, 171>>,
      <<129, 128, 128, 128, 128, 0, 0>>,
      <<1, 129, 128, 128, 128, 128, 0>>,
      <<255, 255, 255, 255, 7, 0>> }

\* The values written to a buffer and read back, ...
ReadItems ==
    << [type |-> "bool", v |-> TRUE],
       [type |-> "bool", v |-> FALSE],
       [type |-> "u8", v |-> 7],
       [type |-> "u16", v |-> 258],
       [type |-> "u32", v |-> {0, 31}],
       [type |-> "u64", v |-> {1, 63}],
       [type |-> "VarInt", v |-> 300],
       [type |-> "VarInt", v |-> -1],
       [type |-> "String", v |-> <<97, 98>>] >>

\* ... two of them one after the other, each named by its place in ReadItems
ReadInputs ==
    {[type |-> "Reads", picks |-> <<i, j>>] : i, j \in 1..Len(ReadItems)}

\* the values an input names
ItemsOf(input) == [k \in 1..Len(input.picks) |-> ReadItems[input.picks[k]]]

\* The values given to encode_varint: of one to five bytes, and negative ones
EncodeVarintInputs ==
    {0, 1, 127, 128, 300, 2097151, 2097152, 2147483647, -1, -128, -2147483647 - 1}

FrameInit ==
    /\ ClientNew
    /\ build \in {"debug", "release"}
    /\ ServerNew
    /\ CoreNew
    /\ \/ cin \in {[type |-> "ToBuffer",
                    buffer |-> [packet_length |-> 0, data_length |-> 0,
                                packet_id |-> id, buffer |-> NewBuf(p)],
                    data |-> d] :
                        id \in PacketIdInputs, p \in PayloadInputs, d \in CompressionInputs}
       \/ cin \in {[type |-> "PacketBufferNew", bytes |-> b, data |-> d] :
                        b \in FrameInputs, d \in CompressionInputs}
       \/ cin \in ReadInputs
       \/ cin \in {[type |-> "EncodeVarint", value |-> v] : v \in EncodeVarintInputs}
       \/ cin \in {[type |-> "ClientStart",
                    compression |-> CompressionDataNew(t, "None")] : t \in CoreThresholds}
    /\ cpc = "start"
    /\ cbuf = NewEmpty
    /\ cout = [panic |-> FALSE, val |-> 0]

\* data.to_buffer(buffer, &data)
CallToBuffer ==
    /\ cpc = "start"
    /\ cin.type = "ToBuffer"
    /\ cbuf' = NewBuf(ToBuffer(cin.buffer, cin.data))
    /\ cpc' = "written"
    /\ UNCHANGED <<cin, cout, connVars, build, serverVars, coreVars>>

\* PacketBuffer::new(bytes, &data)
CallPacketBufferNew ==
    /\ cpc = "start"
    /\ cin.type = "PacketBufferNew"
    /\ cout' = PacketBufferNew(cin.bytes, cin.data, build)
    /\ cpc' = "returned"
    /\ UNCHANGED <<cin, cbuf, connVars, build, serverVars, coreVars>>

\* data.to_buffer(packet, &data) of the PacketBuffer that PacketBuffer::new
\* returned for the bytes
CallToBufferOfDecoded ==
    /\ cpc = "returned"
    /\ cin.type = "PacketBufferNew"
    /\ ~cout.panic
    /\ cout.val # <<>>
    /\ cbuf' = NewBuf(ToBuffer(cout.val[1], cin.data))
    /\ cpc' = "rewritten"
    /\ UNCHANGED <<cin, cout, connVars, build, serverVars, coreVars>>

\* buffer.write(value) of every value on a NormalBuffer::new(vec![]); the
\* bytes are then what a NormalBuffer::new of them is read from
CallBufferWrite ==
    /\ cpc = "start"
    /\ cin.type = "Reads"
    /\ cbuf' = BufWriteEach(NewEmpty, ItemsOf(cin))
    /\ cout' = [panic |-> FALSE, val |-> <<>>, buf |-> NewBuf(cbuf'.vec)]
    /\ cpc' = "filled"
    /\ UNCHANGED <<cin, connVars, build, serverVars, coreVars>>

\* the next read's result added to what was read so far
BufferReadNext(sofar, r) ==
    [panic |-> r.panic, val |-> Append(sofar.val, r.val), buf |-> r.buf]

\* the next buffer.read_*(): the read of the type that was written next
CallBufferRead ==
    /\ cpc = "filled"
    /\ ~cout.panic
    /\ Len(cout.val) < Len(cin.picks)
    /\ cout' = BufferReadNext(cout,
                    BufFromNetwork(cout.buf, ItemsOf(cin)[Len(cout.val) + 1].type, build))
    /\ UNCHANGED <<cin, cpc, cbuf, connVars, build, serverVars, coreVars>>

\* The loop of Client::start of protocol-core, one client: it is at the
\* socket read (cpc "start") until it breaks or panics; cout is what
\* PacketBuffer::new gave for the last read, cbuf the bytes of that read.

\* listener.read returned Ok(n), n > 0: PacketBuffer::new on buffer[..n], the
\* two lines printed when it is Some, and the loop reads again
ClientStartReads ==
    \E bytes \in FrameInputs \ {<<>>} :
        /\ cpc = "start"
        /\ cin.type = "ClientStart"
        /\ cbuf' = NewBuf(bytes)
        /\ cout' = PacketBufferNew(bytes, cin.compression, build)
        /\ cpc' = IF PacketBufferNew(bytes, cin.compression, build).panic
                  THEN "panicked" ELSE "start"
        /\ UNCHANGED <<cin, connVars, build, serverVars, coreVars>>

\* listener.read returned Ok(0): "Client Disconnected...", break
ClientStartEof ==
    /\ cpc = "start"
    /\ cin.type = "ClientStart"
    /\ cpc' = "ended"
    /\ UNCHANGED <<cin, cbuf, cout, connVars, build, serverVars, coreVars>>

\* listener.read returned Err(e): the error is printed, break
ClientStartErr ==
    /\ cpc = "start"
    /\ cin.type = "ClientStart"
    /\ cpc' = "ended"
    /\ UNCHANGED <<cin, cbuf, cout, connVars, build, serverVars, coreVars>>

\* One turn of the loop of encode_varint(value): the low seven bits, the
\* arithmetic shift of the i32, the continuation bit while what is left is not
\* 0, the push, and the break when it is 0.  cout.val is what is left of the
\* value, cbuf.vec the bytes pushed so far.
EncodeVarintTurn ==
    /\ cin.type = "EncodeVarint"
    /\ cpc \in {"start", "loop"}
    /\ Len(cbuf.vec) < MaxVarintBytes
    /\ LET value == IF cpc = "start" THEN cin.value ELSE cout.val
       IN  /\ cbuf' = NewBuf(cbuf.vec \o <<IF value \div 128 # 0
                                          THEN (value % 128) + 128
                                          ELSE value % 128>>)
           /\ cout' = [panic |-> FALSE, val |-> value \div 128]
           /\ cpc' = IF value \div 128 = 0 THEN "returned" ELSE "loop"
    /\ UNCHANGED <<cin, connVars, build, serverVars, coreVars>>

FrameNext ==
    \/ CallToBuffer
    \/ CallPacketBufferNew
    \/ CallToBufferOfDecoded
    \/ CallBufferWrite
    \/ CallBufferRead
    \/ ClientStartReads
    \/ ClientStartEof
    \/ ClientStartErr
    \/ EncodeVarintTurn

FrameSpec == FrameInit /\ [][FrameNext]_vars

----------------------------------------------------------------------------
(* The compressed write and PacketBuffer::new *)

\* to_buffer has written a packet with the Zlib compression type
ZlibWritten == cin.type = "ToBuffer" /\ cpc = "written" /\ cin.data.compression_type = "Zlib"

\* C25: what the compressed write returns starts with a VarInt L and exactly
\* L bytes follow it, also when L is above 127 and takes more than one byte;
\* the bytes that follow are the data length and the body as they were
\* appended, none of them overwritten by the length.
C25_OuterLengthCountsWhatFollows ==
    ZlibWritten =>
        cbuf.vec = VarIntToNetwork(Len(ZlibBody(cin.buffer, cin.data)))
                        \o ZlibBody(cin.buffer, cin.data)

\* P: the packet id as a VarInt, then the payload
PacketP(buffer) == VarIntToNetwork(buffer.packet_id) \o buffer.buffer.vec

\* the index of the last byte of the VarInt that starts at bytes[i], 0 when
\* there is no complete VarInt of at most five bytes there
VarIntEnd(bytes, i) ==
    LET ends == {k \in i..(i + 4) :
                    /\ k <= Len(bytes)
                    /\ \A j \in i..k : (bytes[j] < 128) <=> (j = k)}
    IN  IF ends = {} THEN 0 ELSE CHOOSE k \in ends : TRUE

\* what follows the outer length in the bytes written
AfterOuterLength(vec) == SubSeq(vec, VarIntEnd(vec, 1) + 1, Len(vec))

\* C26: the compressed write decides on the length of P: below the threshold
\* it writes the outer length, a data length of 0 and P as it is; at the
\* threshold or above it writes the outer length, the length of P as data
\* length and the zlib stream of P.
C26_ThresholdComparedWithLengthOfP ==
    ZlibWritten =>
        /\ VarIntEnd(cbuf.vec, 1) > 0
        /\ AfterOuterLength(cbuf.vec) =
              IF Len(PacketP(cin.buffer)) < cin.data.threshold
              THEN <<0>> \o PacketP(cin.buffer)
              ELSE VarIntToNetwork(Len(PacketP(cin.buffer)))
                        \o ZlibEncode(PacketP(cin.buffer))

\* the bytes written end with the zlib stream of P
Deflated(vec, buffer) ==
    /\ Len(vec) >= Len(ZlibEncode(PacketP(buffer)))
    /\ SubSeq(vec, Len(vec) - Len(ZlibEncode(PacketP(buffer))) + 1, Len(vec))
            = ZlibEncode(PacketP(buffer))

\* C27: with threshold 0 every packet is deflated; with a negative threshold
\* no packet is, whatever its size.
C27_NegativeThresholdDisablesCompression ==
    (cin.type = "ToBuffer" /\ cpc = "written") =>
        /\ (cin.data.threshold = 0 /\ cin.data.compression_type = "Zlib") =>
                Deflated(cbuf.vec, cin.buffer)
        /\ cin.data.threshold < 0 => ~Deflated(cbuf.vec, cin.buffer)

\* the bytes start with two complete VarInts of at most five bytes each: a
\* packet length and a packet id
HasLengthAndId(bytes) ==
    /\ VarIntEnd(bytes, 1) > 0
    /\ VarIntEnd(bytes, VarIntEnd(bytes, 1) + 1) > 0

\* C30: PacketBuffer::new never panics and reports every error as None: None
\* for bytes that are not a frame (no bytes, bytes that end inside the length
\* or the id, a VarInt of more than five bytes) and when the compression type
\* cannot decode them, Some(frame) for every other input.
C30_PacketBufferNewReportsErrorsAsNone ==
    (cin.type = "PacketBufferNew" /\ cpc = "returned") =>
        /\ ~cout.panic
        /\ (cout.val # <<>>) <=>
                (cin.data.compression_type = "None" /\ HasLengthAndId(cin.bytes))

----------------------------------------------------------------------------
(* The acceptor of crates/protocol-core: ServerConnection (server.rs) and    *)
(* the Client it makes of every socket (client.rs).  accept_connections is   *)
(* followed from one await to the next; stop and set_compression_threshold   *)
(* are single stores that fall between its steps.                            *)

\* Client::new(socket, compression), and the task tokio::spawn runs it in
CoreClientNew(compression) == [compression |-> compression, task |-> "running"]

\* A client connects: the kernel holds the connection until accept() returns it
CoreConnects ==
    /\ Len(core_clients) + core_backlog < MaxCoreClients
    /\ core_backlog' = core_backlog + 1
    /\ UNCHANGED <<compression_threshold, is_running, core_pc, core_clients,
                   connVars, build, serverVars, codecVars>>

\* while self.is_running.load(Ordering::SeqCst): go on to accept() or return
LoadIsRunning ==
    /\ core_pc = "check"
    /\ core_pc' = IF is_running THEN "accept" ELSE "returned"
    /\ UNCHANGED <<compression_threshold, is_running, core_clients, core_backlog,
                   connVars, build, serverVars, codecVars>>

\* A faulty variant of AcceptOk: the callback of a client is awaited in the
\* loop, which is back at accept() only when the tasks before it are over
AcceptOkAwaited ==
    /\ core_pc = "accept"
    /\ core_backlog > 0
    /\ \A i \in 1..Len(core_clients) : core_clients[i].task # "running"
    /\ core_clients' =
          Append(core_clients,
                 CoreClientNew(CompressionDataNew(compression_threshold, "None")))
    /\ core_backlog' = core_backlog - 1
    /\ core_pc' = "check"
    /\ UNCHANGED <<compression_threshold, is_running, connVars, build, serverVars,
                   codecVars>>

\* self.stream.accept().await returned Ok: the Client is made with the
\* threshold of this moment and CompressionType::None, and its task spawned
AcceptOk ==
    /\ core_pc = "accept"
    /\ core_backlog > 0
    /\ core_clients' =
          Append(core_clients,
                 CoreClientNew(CompressionDataNew(compression_threshold, "None")))
    /\ core_backlog' = core_backlog - 1
    /\ core_pc' = "check"
    /\ UNCHANGED <<compression_threshold, is_running, connVars, build, serverVars,
                   codecVars>>

\* self.stream.accept().await returned Err: the loop goes round
AcceptErr ==
    /\ core_pc = "accept"
    /\ core_pc' = "check"
    /\ UNCHANGED <<compression_threshold, is_running, core_clients, core_backlog,
                   connVars, build, serverVars, codecVars>>

\* ServerConnection::stop
Stop ==
    /\ is_running' = FALSE
    /\ UNCHANGED <<compression_threshold, core_pc, core_clients, core_backlog,
                   connVars, build, serverVars, codecVars>>

\* A faulty variant of SetCompressionThreshold: the clients share the setting
SetCompressionThresholdOfAll(threshold) ==
    /\ compression_threshold' = threshold
    /\ core_clients' =
          [i \in 1..Len(core_clients) |->
              [core_clients[i] EXCEPT !.compression.threshold = threshold]]
    /\ UNCHANGED <<is_running, core_pc, core_backlog,
                   connVars, build, serverVars, codecVars>>

\* ServerConnection::set_compression_threshold
SetCompressionThreshold(threshold) ==
    /\ compression_threshold' = threshold
    /\ UNCHANGED <<is_running, core_pc, core_clients, core_backlog,
                   connVars, build, serverVars, codecVars>>

\* Client::start returns (the socket read gave Ok(0) or an error) or panics:
\* the task of client i is over
ClientTaskEnds(i) ==
    /\ core_clients[i].task = "running"
    /\ core_clients' = [core_clients EXCEPT ![i].task = "ended"]
    /\ UNCHANGED <<compression_threshold, is_running, core_pc, core_backlog,
                   connVars, build, serverVars, codecVars>>

CoreInit ==
    /\ ClientNew
    /\ build \in {"debug", "release"}
    /\ ServerNew
    /\ CodecNew
    /\ CoreNew

CoreNext ==
    \/ CoreConnects
    \/ LoadIsRunning
    \/ AcceptOk
    \/ AcceptErr
    \/ Stop
    \/ \E threshold \in CoreThresholds : SetCompressionThreshold(threshold)
    \/ \E i \in 1..Len(core_clients) : ClientTaskEnds(i)

CoreSpec == CoreInit /\ [][CoreNext]_vars

\* The accept loop is a task of the runtime and is run whenever it can go on;
\* accept() on a listener that holds a connection returns it in the end.
\* Nothing is assumed of the clients: a task may run for ever.
CoreFairSpec == CoreSpec /\ WF_vars(LoadIsRunning) /\ SF_vars(AcceptOk)

----------------------------------------------------------------------------
(* The settings of a connection and the stop flag *)

\* C28: a new ServerConnection has threshold 256; the CompressionData of a
\* client is the threshold the server had when the client was accepted, and
\* no step changes it afterwards: set_compression_threshold reaches only the
\* clients accepted after the call.
C28_ThresholdReachesLaterClientsOnly ==
    /\ compression_threshold = 256
    /\ [][/\ Len(core_clients') >= Len(core_clients)
          /\ \A i \in 1..Len(core_clients) :
                core_clients'[i].compression = core_clients[i].compression
          /\ Len(core_clients') > Len(core_clients) =>
                core_clients'[Len(core_clients')].compression.threshold
                    = compression_threshold]_vars

\* C28 witness: the threshold was changed between two accepts: an earlier
\* client still has the old threshold, a later one the threshold now set
C28_Witness ==
    \E i, j \in 1..Len(core_clients) :
        /\ i < j
        /\ core_clients[i].compression.threshold = 256
        /\ core_clients[j].compression.threshold = 25
        /\ compression_threshold = 25

----------------------------------------------------------------------------
(* Reads on a protocol-buf buffer, the frame round trip, encode_varint *)

\* the bytes the first n of the items take on the wire
RECURSIVE EncodedWidth(_, _)
EncodedWidth(items, n) ==
    IF n = 0 THEN 0
    ELSE EncodedWidth(items, n - 1) + Len(BufToNetwork(items[n].type, items[n].v))

\* C31: every read on a protocol-buf buffer consumes the value it returns:
\* after any number of reads no read has panicked, the values read are the
\* values written, in order, and the cursor stands just past the encoding of
\* the last value read.
C31_ReadsConsumeWhatTheyReturn ==
    (cin.type = "Reads" /\ cpc = "filled") =>
        /\ ~cout.panic
        /\ \A i \in 1..Len(cout.val) : cout.val[i] = ItemsOf(cin)[i].v
        /\ cout.buf.pos = EncodedWidth(ItemsOf(cin), Len(cout.val))

\* C32: a socket read of 0 bytes ends the loop of connect in every connection
\* state: the step that closes starts at the read, runs no handler (state and
\* the console are as before), writes nothing, and no step of the connection
\* follows it.
C32_ZeroReadEndsTheLoop ==
    [][/\ (pc' = "closed" /\ pc # "closed") =>
             /\ pc = "reading"
             /\ state' = state
             /\ log' = log
             /\ sent' = sent
             /\ written' = written
       /\ pc = "closed" => UNCHANGED connVars]_vars

\* C32 witness: the peer closed a connection that had reached Play
C32_Witness == pc = "closed" /\ state = "Play" /\ nreads = MaxReads

\* C32, the loop of Client::start of protocol-core: Ok(0) breaks it from the
\* read, PacketBuffer::new is not called on that read, and nothing follows.
C32_ClientStartEndsOnZeroRead ==
    [][cin.type = "ClientStart" =>
          /\ cpc' = "ended" => (cpc \in {"start", "ended"} /\ cout' = cout /\ cbuf' = cbuf)
          /\ cpc = "ended" => UNCHANGED codecVars]_vars

\* the loop of Client::start ended after a read that gave a packet
C32_ClientStartWitness ==
    cin.type = "ClientStart" /\ cpc = "ended" /\ cbuf.vec = <<3, 0, 1, 2>>

----------------------------------------------------------------------------
(* PingRequest *)

\* C33: after a PingRequest (id 1) is handled in state Status the bytes
\* written are exactly one PingResponse frame (length 9, id 1) whose eight
\* payload bytes are those of the request, and the state is still Status.
C33_PingRequestAnsweredWithItsPayload ==
    /\ (Handled("PingRequestPacket", "Status") /\ pc = "reading")
       => /\ state = "Status"
          /\ log.id = 1
          /\ sent = << <<9, 1>> \o I64Be(log.packet.payload) >>
    /\ \A p \in PingPayloads :
          (pc = "reading" /\ log.state = "Status" /\ rx = PingFrame(p))
          => sent = << <<9, 1>> \o p >>

\* C33 witness: a ping with a payload whose sign bit is set was answered
C33_Witness ==
    /\ Handled("PingRequestPacket", "Status")
    /\ pc = "reading"
    /\ rx = PingFrame(<<255, 254, 3, 4, 5, 6, 7, 128>>)
    /\ sent = << <<9, 1, 255, 254, 3, 4, 5, 6, 7, 128>> >>
    /\ state = "Status"

----------------------------------------------------------------------------
(* Decoding a frame and framing it again *)

\* C34: with CompressionType::None, the PacketBuffer that grab_from_buffer
\* makes of a frame has data_length 0, its packet_length and packet_id are the
\* first two VarInts of the bytes, and to_buffer of it returns the bytes.
C34_NoneFrameRoundTrips ==
    (cin.type = "PacketBufferNew" /\ cin.data.compression_type = "None"
        /\ cpc = "rewritten")
    => /\ cbuf.vec = cin.bytes
       /\ cout.val[1].data_length = 0
       /\ LET head == BufVarIntToNetwork(cout.val[1].packet_length)
                          \o BufVarIntToNetwork(cout.val[1].packet_id)
          IN  /\ Len(head) <= Len(cin.bytes)
              /\ SubSeq(cin.bytes, 1, Len(head)) = head

\* C34 witness: the frame 03 00 01 02 (id 0, payload 01 02) was decoded and
\* framed again
C34_Witness ==
    /\ cin.type = "PacketBufferNew"
    /\ cin.data.compression_type = "None"
    /\ cin.bytes = <<3, 0, 1, 2>>
    /\ cpc = "rewritten"
    /\ cout.val[1].packet_length = 3
    /\ cout.val[1].packet_id = 0
    /\ cout.val[1].buffer.pos = 2
    /\ cbuf.vec = <<3, 0, 1, 2>>

----------------------------------------------------------------------------
(* The accept loop of protocol-core and the tasks of its clients *)

\* C35: every accepted socket becomes a Client whose task is spawned, and the
\* loop is then back at its condition; a connection that waits while the
\* server is running is accepted in the end, whatever the tasks of the clients
\* accepted before it do (they may never end).
C35_AcceptDoesNotWaitForClients ==
    /\ [][Len(core_clients') > Len(core_clients) =>
             /\ core_clients'[Len(core_clients')].task = "running"
             /\ core_pc' = "check"
             /\ \A i \in 1..Len(core_clients) : core_clients'[i] = core_clients[i]]_vars
    /\ \A n \in 0..MaxCoreClients :
          (Len(core_clients) = n /\ core_backlog > 0 /\ is_running)
             ~> (Len(core_clients) > n \/ ~is_running)

\* C35 witness: a client was accepted while the task of an earlier one runs,
\* and both still run
C35_Witness ==
    /\ Len(core_clients) >= 2
    /\ core_clients[1].task = "running"
    /\ core_clients[2].task = "running"
    /\ is_running

----------------------------------------------------------------------------
(* Vec<T> *)

\* C36: the bytes of a Vec<T> start with its element count; decoding them
\* gives the same elements in the same order and stops just past the last
\* element, whatever follows in the buffer.
C36_VecRoundTrips ==
    /\ (cin.type = "Vec" /\ cpc \in {"written", "read"}) =>
          /\ Len(cbuf.vec) >= 1
          /\ cbuf.vec[1] = Len(cin.v)
    /\ (cin.type = "Vec" /\ cpc = "read") =>
          /\ ~cout.panic
          /\ cout.val = cin.v
          /\ cout.buf.pos = Len(cbuf.vec)
          /\ cout.buf.vec = cbuf.vec \o cin.tail

\* C36 witness: the strings "ab" and "" were written as 02 02 61 62 00 and
\* read back in that order, the two bytes after them left unread
C36_Witness ==
    /\ cin.type = "Vec"
    /\ cpc = "read"
    /\ cin.v = <<<<97, 98>>, <<>>>>
    /\ cin.tail = <<1, 116>>
    /\ cbuf.vec = <<2, 2, 97, 98, 0>>
    /\ cout.val = <<<<97, 98>>, <<>>>>
    /\ cout.buf.pos = 5

----------------------------------------------------------------------------
(* MinecraftClient::send_packet and the socket.  cin names the packet, cbuf  *)
(* holds the bytes the socket has taken, cout what listener.write returned.  *)

\* the packets the handlers send
SentPackets ==
    << StatusResponsePacket,
       PingResponsePacket([payload |-> {0}]),
       LoginSuccessPacket([uuid |-> Zeros(16), username |-> StrAlice]),
       [name |-> "FinishConfigurationPacket"],
       LoginPlayPacket,
       GameEventPacket >>

SendInit ==
    /\ ClientNew
    /\ build \in {"debug", "release"}
    /\ ServerNew
    /\ CoreNew
    /\ cin \in {[type |-> "SendPacket", pick |-> i] : i \in 1..Len(SentPackets)}
    /\ cpc = "start"
    /\ cbuf = NewEmpty
    /\ cout = [panic |-> FALSE, val |-> 0]

\* self.listener.write(buf.get_ref()).await.unwrap() when write returns Ok(n):
\* AsyncWriteExt::write makes one attempt and the socket takes the first n
\* bytes of the buffer, as many as it has room for; the count is dropped
ListenerWrite(buf, n) ==
    /\ cbuf' = NewBuf(SubSeq(buf, 1, n))
    /\ cout' = [panic |-> FALSE, val |-> n]
    /\ cpc' = "returned"

\* client.send_packet(&packet) in which the write returns Ok(n)
CallSendPacket ==
    \E n \in 0..Len(SendPacket(SentPackets[cin.pick])) :
        /\ cpc = "start"
        /\ cin.type = "SendPacket"
        /\ ListenerWrite(SendPacket(SentPackets[cin.pick]), n)
        /\ UNCHANGED <<cin, connVars, build, serverVars, coreVars>>

\* client.send_packet(&packet) in which the write returns Err: unwrap() panics
CallSendPacketFails ==
    /\ cpc = "start"
    /\ cin.type = "SendPacket"
    /\ cout' = [panic |-> TRUE, val |-> 0]
    /\ cpc' = "panicked"
    /\ UNCHANGED <<cin, cbuf, connVars, build, serverVars, coreVars>>

SendNext ==
    \/ CallSendPacket
    \/ CallSendPacketFails

SendSpec == SendInit /\ [][SendNext]_vars

\* C37: when send_packet has returned the socket has taken the whole frame,
\* also when a write call takes only a part of the buffer.
C37_SendPacketWritesWholeFrame ==
    (cin.type = "SendPacket" /\ cpc = "returned") =>
        cbuf.vec = SendPacket(SentPackets[cin.pick])

----------------------------------------------------------------------------
(* The order of what a connection writes over its whole life *)

\* the places of packet `name` in what the connection has written
WrittenAt(name) == {i \in 1..Len(written) : written[i] = name}

\* C38: whenever a LoginPlay is written the connection has before it written
\* eight RegistryData and the FinishConfiguration, and over its whole life it
\* writes the burst (eight RegistryData, one FinishConfiguration), LoginPlay
\* and GameEvent at most once each, whatever the client sends.
C38_LoginPlayOnlyAfterTheBurstAndOnce ==
    /\ \A k \in WrittenAt("LoginPlayPacket") :
          /\ Cardinality({i \in WrittenAt("RegistryDataPacket") : i < k}) = 8
          /\ \E i \in WrittenAt("FinishConfigurationPacket") : i < k
    /\ Cardinality(WrittenAt("RegistryDataPacket")) <= 8
    /\ Cardinality(WrittenAt("FinishConfigurationPacket")) <= 1
    /\ Cardinality(WrittenAt("LoginPlayPacket")) <= 1
    /\ Cardinality(WrittenAt("GameEventPacket")) <= 1

\* C38 witness: a connection in Play that wrote the burst, LoginPlay and
\* GameEvent and was then sent one more packet
C38_Witness ==
    /\ state = "Play"
    /\ pc = "reading"
    /\ nreads = MaxReads
    /\ Len(written) = 11
    /\ written[10] = "LoginPlayPacket"
    /\ written[11] = "GameEventPacket"
    /\ log.line = "Unknown"


\* C39: a connection is in Configuration, or has written a RegistryData, only
\* when it has before that written a LoginSuccess (the answer to a LoginStart
\* it handled); a LoginAcknowledged with no LoginStart before it leaves the
\* state at Login.
C39_ConfigurationOnlyAfterLoginSuccess ==
    /\ state = "Configuration" => WrittenAt("LoginSuccessPacket") # {}
    /\ \A k \in WrittenAt("RegistryDataPacket") :
          \E i \in WrittenAt("LoginSuccessPacket") : i < k

----------------------------------------------------------------------------
(* encode_varint *)

\* C40: encode_varint returns for every i32, with the bytes VarInt::to_network
\* gives for the value, which are five for a negative value: the loop never
\* pushes a sixth byte.
C40_EncodeVarintIsVarIntToNetwork ==
    cin.type = "EncodeVarint" =>
        /\ Len(cbuf.vec) <= 5
        /\ cpc = "returned" => cbuf.vec = BufVarIntToNetwork(cin.value)
        /\ cpc = "loop" =>
              /\ Len(cbuf.vec) < Len(BufVarIntToNetwork(cin.value))
              /\ cbuf.vec = SubSeq(BufVarIntToNetwork(cin.value), 1, Len(cbuf.vec))

====
